---------------------------- MODULE Spec2Model ----------------------------
(***************************************************************************)
(* Ant Colony Optimization simulation: the Graph (distance and pheromone   *)
(* matrices), the Agent, and the AntColonyOptimization service with its    *)
(* iteration generator.                                                    *)
(*                                                                         *)
(* JavaScript numbers are modelled as exact extended rationals <<n, d>>:    *)
(* d > 0 is the fraction n/d in lowest terms, <<1, 0>> is +Infinity and    *)
(* <<0, 0>> is NaN.  With the inputs drawn here no negative number meets a *)
(* division by zero, so -Infinity is left out.  Rounding of IEEE doubles   *)
(* is not modelled.                                                        *)
(***************************************************************************)
EXTENDS Integers, Sequences, FiniteSets, TLC

VARIABLES
    graphParams,  \* the GraphParams the Graph was constructed with
    nodes,        \* Graph.nodes: node id -> [x, y]
    distances,    \* Graph.distances
    pheromones,   \* Graph.pheromones
    params,       \* the AlgorithmParams every start() is called with
    status,       \* AntColonyOptimization._status$ (its current value)
    notifications, \* the number of values _status$ has emitted since construction
    agents,       \* AntColonyOptimization._agents
    bestAgent,    \* AntColonyOptimization._bestAgent (None or Some(agent))
    gens,         \* the generators start() has returned, in order of creation
    source,       \* an Agent driven through its own methods (None or Some(agent))
    copy,         \* the Agent made of it by new Agent(source) (None or Some(agent))
    shared,       \* the fields of copy that hold the same object as the source's
    structure,    \* _generateKRegularStructure: edges, degree and the loop it is in
    app,          \* AppComponent: its signals, _algorithmIterator, _algorithmLoopSub
    runResults,   \* the results the generator of the latest start() has emitted
    evaluation    \* tour lengths and the result of an iteration as binary64 numbers

vars == <<graphParams, nodes, distances, pheromones, params, status, notifications, agents,
          bestAgent, gens, source, copy, shared, structure, app, runResults,
          evaluation>>

\* An optional value (null, undefined or a value) is the empty sequence or <<value>>
None == <<>>
Some(x) == <<x>>
IsSome(o) == o # <<>>
Get(o) == o[1]

---------------------------------------------------------------------------
(* Bounds of the model                                                     *)

MaxAnts == 2           \* antCount ranges over 1..MaxAnts
MaxIterations == 2     \* maxIterations ranges over 1..MaxIterations
MaxThreshold == 2      \* improvementThreshold ranges over 1..MaxThreshold
MaxStarts == 2         \* start() is called at most MaxStarts times
MaxPulls == 4          \* next() is called at most MaxPulls times, over all generators
MaxRingCount == 5      \* k-regular graphs have 3..MaxRingCount nodes
MaxMoves == 4          \* antCount * (count - 1), the moves of one iteration, is at most MaxMoves
MaxPheromoneWrites == 1 \* updatePheromone is called directly while fewer than MaxPheromoneWrites entries differ from initialPheromone
MaxTourLength == 3     \* an Agent driven through its own methods has a tour of at most MaxTourLength entries

---------------------------------------------------------------------------
(* Numbers                                                                 *)

RECURSIVE GCD(_, _)
GCD(a, b) == IF b = 0 THEN a ELSE GCD(b, a % b)

Norm(n, d) == IF d = 0 THEN (IF n = 0 THEN <<0, 0>> ELSE <<1, 0>>)
              ELSE IF n = 0 THEN <<0, 1>>
              ELSE LET g == GCD(n, d) IN <<n \div g, d \div g>>

Zero == <<0, 1>>
One == <<1, 1>>
Infinity == <<1, 0>>
NaN == <<0, 0>>
Int2Num(i) == <<i, 1>>

IsNaN(a) == a = NaN
IsInf(a) == a = Infinity
IsFinite(a) == a[2] # 0

\* a + b
Add(a, b) == IF IsNaN(a) \/ IsNaN(b) THEN NaN
             ELSE IF IsInf(a) \/ IsInf(b) THEN Infinity
             ELSE LET g == GCD(a[2], b[2])
                  IN  Norm(a[1] * (b[2] \div g) + b[1] * (a[2] \div g),
                           (a[2] \div g) * b[2])

\* a * b  (Infinity * 0 is NaN)
Mul(a, b) == IF IsNaN(a) \/ IsNaN(b) THEN NaN
             ELSE IF IsInf(a) \/ IsInf(b)
                  THEN (IF a = Zero \/ b = Zero THEN NaN ELSE Infinity)
             ELSE IF a[1] = 0 \/ b[1] = 0 THEN Zero
             ELSE LET g1 == GCD(a[1], b[2])
                      g2 == GCD(b[1], a[2])
                  IN  Norm((a[1] \div g1) * (b[1] \div g2),
                           (a[2] \div g2) * (b[2] \div g1))

\* a / b  (x / 0 is Infinity for x > 0, 0 / 0 and Infinity / Infinity are NaN)
Div(a, b) == IF IsNaN(a) \/ IsNaN(b) THEN NaN
             ELSE IF IsInf(b) THEN (IF IsInf(a) THEN NaN ELSE Zero)
             ELSE IF IsInf(a) THEN Infinity
             ELSE Mul(a, IF b[1] < 0 THEN <<-b[2], -b[1]>> ELSE <<b[2], b[1]>>)

\* 1 - a for a finite a in [0, 1]
OneMinus(a) == Norm(a[2] - a[1], a[2])

\* a < b and a <= b; every comparison with NaN is false
Lt(a, b) == /\ ~IsNaN(a) /\ ~IsNaN(b)
            /\ ~IsInf(a)
            /\ (IsInf(b) \/ LET g == GCD(a[2], b[2])
                            IN  a[1] * (b[2] \div g) < b[1] * (a[2] \div g))

Le(a, b) == /\ ~IsNaN(a) /\ ~IsNaN(b)
            /\ (IsInf(b) \/ (~IsInf(a) /\ LET g == GCD(a[2], b[2])
                                           IN  a[1] * (b[2] \div g) <= b[1] * (a[2] \div g)))

\* Math.pow(a, e) for an exponent e in Nat; Math.pow(x, 0) is 1 for every x
RECURSIVE Pow(_, _)
Pow(a, e) == IF e = 0 THEN One ELSE Mul(a, Pow(a, e - 1))

\* Math.floor of a finite number
Floor(a) == a[1] \div a[2]

\* Math.hypot(dx, dy) on lattice differences whose hypotenuse is an integer
Hypot(dx, dy) == LET s == dx * dx + dy * dy
                 IN  Int2Num(CHOOSE h \in 0..s : h * h = s)


---------------------------------------------------------------------------
(* Graph: construction                                                     *)

NodeIds(n) == 0..(n - 1)

\* Array(n).fill(0).map(() => Array(n).fill(value))
createMatrix(n, value) == [i \in NodeIds(n) |-> [j \in NodeIds(n) |-> value]]

\* The draws of the random service that place the nodes are modelled by the
\* lattice points they produce: node i is put at layout[i + 1], a point of
\* [0, coordinateRange) x [0, coordinateRange), coordinateRange = 100 * sqrt(count).
InCoordinateRange(count, c) == c >= 0 /\ c * c < 10000 * count

generateNodes(count, layout) ==
    [i \in NodeIds(count) |-> [id |-> i, x |-> layout[i + 1][1], y |-> layout[i + 1][2]]]

euclideanDistance(nodeA, nodeB) ==
    LET dx == nodeA.x - nodeB.x
        dy == nodeA.y - nodeB.y
    IN  Hypot(IF dx < 0 THEN -dx ELSE dx, IF dy < 0 THEN -dy ELSE dy)

\* _buildCompleteGraph: every pair gets its euclidean distance; params is not read
buildCompleteGraph(ns, gp) ==
    LET n == Cardinality(DOMAIN ns)
    IN  [i \in NodeIds(n) |-> [j \in NodeIds(n) |->
            IF i = j THEN Zero ELSE euclideanDistance(ns[i], ns[j])]]

edgeExists(edges, i, j) ==
    \E e \in 1..Len(edges) : edges[e] = <<i, j>> \/ edges[e] = <<j, i>>

\* edges.push([i, j]); degree[i]++; degree[j]++
pushEdge(st, i, j) ==
    [edges |-> Append(st.edges, <<i, j>>),
     degree |-> [[st.degree EXCEPT ![i] = @ + 1] EXCEPT ![j] = @ + 1]]

\* Faulty variant of ringFrom: node i is joined to node i + 2
RECURSIVE ringFromSkipping(_, _, _)
ringFromSkipping(st, i, n) ==
    IF i >= n THEN st ELSE ringFromSkipping(pushEdge(st, i, (i + 2) % n), i + 1, n)

\* Step 1: the ring 0 -> 1 -> ... -> n-1 -> 0, from node i on
RECURSIVE ringFrom(_, _, _)
ringFrom(st, i, n) ==
    IF i >= n THEN st ELSE ringFrom(pushEdge(st, i, (i + 1) % n), i + 1, n)

\* Step 2: chords of one offset, from node i on
RECURSIVE chordsFrom(_, _, _, _, _)
chordsFrom(st, offset, i, n, k) ==
    IF i >= n THEN st
    ELSE LET j == (i + offset) % n
             add == /\ st.degree[i] < k
                    /\ st.degree[j] < k
                    /\ ~edgeExists(st.edges, i, j)
         IN  chordsFrom(IF add THEN pushEdge(st, i, j) ELSE st, offset, i + 1, n, k)

RECURSIVE chordOffsetsFrom(_, _, _, _)
chordOffsetsFrom(st, offset, n, k) ==
    IF offset > k \div 2 THEN st
    ELSE chordOffsetsFrom(chordsFrom(st, offset, 0, n, k), offset + 1, n, k)

\* Step 3: diameter edges (i, i + n/2), from node i on
RECURSIVE diametersFrom(_, _, _, _)
diametersFrom(st, i, n, k) ==
    IF 2 * i >= n THEN st
    ELSE LET j == i + (n \div 2)
             add == /\ st.degree[i] < k
                    /\ st.degree[j] < k
                    /\ ~edgeExists(st.edges, i, j)
         IN  diametersFrom(IF add THEN pushEdge(st, i, j) ELSE st, i + 1, n, k)

\* Faulty variant of bestCandidateFrom: nodes of degree k are candidates too
RECURSIVE bestCandidateFromAnyDegree(_, _, _, _, _, _, _)
bestCandidateFromAnyDegree(st, i, j, n, k, bestCandidate, minCandidateDegree) ==
    IF j >= n THEN bestCandidate
    ELSE IF i = j
         THEN bestCandidateFromAnyDegree(st, i, j + 1, n, k, bestCandidate, minCandidateDegree)
    ELSE IF ~edgeExists(st.edges, i, j) /\ st.degree[j] < minCandidateDegree
         THEN bestCandidateFromAnyDegree(st, i, j + 1, n, k, j, st.degree[j])
    ELSE bestCandidateFromAnyDegree(st, i, j + 1, n, k, bestCandidate, minCandidateDegree)

\* Step 4, inner loop: the candidate for node i after scanning j..n-1
RECURSIVE bestCandidateFrom(_, _, _, _, _, _, _)
bestCandidateFrom(st, i, j, n, k, bestCandidate, minCandidateDegree) ==
    IF j >= n THEN bestCandidate
    ELSE IF i = j \/ st.degree[j] >= k
         THEN bestCandidateFrom(st, i, j + 1, n, k, bestCandidate, minCandidateDegree)
    ELSE IF ~edgeExists(st.edges, i, j) /\ st.degree[j] < minCandidateDegree
         THEN bestCandidateFrom(st, i, j + 1, n, k, j, st.degree[j])
    ELSE bestCandidateFrom(st, i, j + 1, n, k, bestCandidate, minCandidateDegree)

\* Faulty variant of fillPassFrom: the pass ends with the first edge it adds
RECURSIVE fillPassFromFirst(_, _, _, _)
fillPassFromFirst(st, i, n, k) ==
    IF i >= n THEN st
    ELSE IF st.degree[i] >= k THEN fillPassFromFirst(st, i + 1, n, k)
    ELSE LET bestCandidate == bestCandidateFrom(st, i, 0, n, k, -1, k + 1)
         IN  IF bestCandidate # -1 THEN pushEdge(st, i, bestCandidate)
             ELSE fillPassFromFirst(st, i + 1, n, k)

\* Step 4, one pass over the nodes, from node i on
RECURSIVE fillPassFrom(_, _, _, _)
fillPassFrom(st, i, n, k) ==
    IF i >= n THEN st
    ELSE IF st.degree[i] >= k THEN fillPassFrom(st, i + 1, n, k)
    ELSE LET bestCandidate == bestCandidateFrom(st, i, 0, n, k, -1, k + 1)
         IN  fillPassFrom(IF bestCandidate # -1 THEN pushEdge(st, i, bestCandidate) ELSE st,
                          i + 1, n, k)

\* Step 4: one pass per targetDegree in minDegree..k-1
RECURSIVE fillFrom(_, _, _, _)
fillFrom(st, targetDegree, n, k) ==
    IF targetDegree >= k THEN st
    ELSE fillFrom(fillPassFrom(st, 0, n, k), targetDegree + 1, n, k)

MinDegree(degree, n) == CHOOSE m \in {degree[i] : i \in NodeIds(n)} :
                            \A i \in NodeIds(n) : m <= degree[i]

\* _generateKRegularStructure(n, k), n >= 1: the structure after the four steps
kRegularStructure(n, k) ==
    LET s0 == [edges |-> <<>>, degree |-> [i \in NodeIds(n) |-> 0]]
        s1 == ringFrom(s0, 0, n)
        s2 == chordOffsetsFrom(s1, 2, n, k)
        s3 == IF k % 2 = 1 /\ n % 2 = 0 THEN diametersFrom(s2, 0, n, k) ELSE s2
    IN  fillFrom(s3, MinDegree(s3.degree, n), n, k)

generateKRegularStructure(n, k) == kRegularStructure(n, k).edges

\* The draw of the random service for the e-th edge weight: the stream repeats
StreamAt(stream, e) == stream[((e - 1) % Len(stream)) + 1]

\* Faulty variant of assignWeights: only distances[i][j] is written
RECURSIVE assignWeightsOneWay(_, _, _, _, _, _)
assignWeightsOneWay(dist, edges, e, ns, gp, stream) ==
    IF e > Len(edges) THEN dist
    ELSE LET i == edges[e][1]
             j == edges[e][2]
             useRandomWeights == IsSome(gp.minDistance) \/ IsSome(gp.maxDistance)
             minDist == IF IsSome(gp.minDistance) THEN Get(gp.minDistance) ELSE 10
             maxDist == IF IsSome(gp.maxDistance) THEN Get(gp.maxDistance) ELSE 100
             weight == IF useRandomWeights
                       THEN Add(Int2Num(minDist),
                                Mul(StreamAt(stream, e), Int2Num(maxDist - minDist)))
                       ELSE euclideanDistance(ns[i], ns[j])
         IN  assignWeightsOneWay([dist EXCEPT ![i][j] = weight], edges, e + 1, ns, gp, stream)

\* the weight loop of _buildKRegularGraph, from edge e on
RECURSIVE assignWeights(_, _, _, _, _, _)
assignWeights(dist, edges, e, ns, gp, stream) ==
    IF e > Len(edges) THEN dist
    ELSE LET i == edges[e][1]
             j == edges[e][2]
             useRandomWeights == IsSome(gp.minDistance) \/ IsSome(gp.maxDistance)
             minDist == IF IsSome(gp.minDistance) THEN Get(gp.minDistance) ELSE 10
             maxDist == IF IsSome(gp.maxDistance) THEN Get(gp.maxDistance) ELSE 100
             weight == IF useRandomWeights
                       THEN Add(Int2Num(minDist),
                                Mul(StreamAt(stream, e), Int2Num(maxDist - minDist)))
                       ELSE euclideanDistance(ns[i], ns[j])
             d1 == [dist EXCEPT ![i][j] = weight]
         IN  assignWeights([d1 EXCEPT ![j][i] = weight], edges, e + 1, ns, gp, stream)

buildKRegularGraph(ns, gp, stream) ==
    LET n == Cardinality(DOMAIN ns)
        k == IF IsSome(gp.edgesPerNode) THEN Get(gp.edgesPerNode) ELSE 2
        init == [i \in NodeIds(n) |-> [j \in NodeIds(n) |->
                    IF i = j THEN Zero ELSE Infinity]]
    IN  assignWeights(init, generateKRegularStructure(n, k), 1, ns, gp, stream)

buildDistanceMatrix(ns, gp, stream) ==
    IF IsSome(gp.edgesPerNode) /\ Get(gp.edgesPerNode) >= 2
    THEN buildKRegularGraph(ns, gp, stream)
    ELSE buildCompleteGraph(ns, gp)

---------------------------------------------------------------------------
(* Graph: accessors and pheromone updates                                  *)

nodeCount == Cardinality(DOMAIN nodes)

getDistance(i, j) == distances[i][j]

getPheromone(ph, i, j) == ph[i][j]

\* the sum of the consecutive distances of the tour, from position p on
RECURSIVE sumDistances(_, _)
sumDistances(tour, p) ==
    IF p >= Len(tour) THEN Zero
    ELSE Add(getDistance(tour[p], tour[p + 1]), sumDistances(tour, p + 1))

calculateDistance(tour) ==
    IF Len(tour) = 0 \/ Len(tour) = 1 THEN Zero ELSE sumDistances(tour, 1)

\* the elements of a set of integers in ascending order
RECURSIVE Ascending(_)
Ascending(S) ==
    IF S = {} THEN <<>>
    ELSE LET m == CHOOSE x \in S : \A y \in S : x <= y
         IN  <<m>> \o Ascending(S \ {m})

\* Faulty variant of getReachableNodes: the distance is not looked at
getReachableNodesAny(currentNode, candidateNodes) == candidateNodes

getReachableNodes(currentNode, candidateNodes) ==
    LET reachable(node) == LET distance == getDistance(currentNode, node)
                           IN  distance # Infinity /\ Lt(Zero, distance)
    IN  SelectSeq(candidateNodes, reachable)

\* Faulty variant of updatePheromone: only the [i][j] entry is written
updatePheromoneOneWay(ph, i, j, value) == [ph EXCEPT ![i][j] = value]

\* updatePheromone(i, j, value): both directions of the edge
updatePheromone(ph, i, j, value) ==
    LET p1 == [ph EXCEPT ![i][j] = value]
    IN  [p1 EXCEPT ![j][i] = value]

\* Faulty variant of evaporatePheromones: every entry is multiplied by the rate
evaporatePheromonesByRate(ph, evaporationRate) ==
    [i \in DOMAIN ph |-> [j \in DOMAIN ph |-> Mul(ph[i][j], evaporationRate)]]

evaporatePheromones(ph, evaporationRate) ==
    [i \in DOMAIN ph |-> [j \in DOMAIN ph |-> Mul(ph[i][j], OneMinus(evaporationRate))]]

---------------------------------------------------------------------------
(* Agent                                                                   *)

\* Agent.reset(startPosition); new Agent(startPosition) is the same
reset(startPosition) ==
    [tour |-> <<startPosition>>,
     tabuList |-> {startPosition},
     visitedCount |-> 1,
     position |-> startPosition,
     tourLength |-> Zero]

\* Faulty variant of copyAgent: tourLength is not copied and stays 0
copyAgentWithoutLength(agent) == [agent EXCEPT !.tourLength = Zero]

\* new Agent(agent): the fields of the argument.  The new object holds the
\* source's tour array and tabu set themselves, not copies of them: which fields
\* still hold a shared object is kept in the variable `shared` where an Agent is
\* driven through its own methods (AgentCopy, AgentMoveTo below).  The service
\* resets an agent, which installs fresh objects, before it moves it again, so
\* for the incumbent of the service the copy is a value.
copyAgent(agent) == agent

moveTo(agent, position) ==
    [agent EXCEPT !.position = position,
                  !.tour = Append(@, position),
                  !.tabuList = @ \cup {position},
                  !.visitedCount = @ + 1]

closeTour(agent) ==
    IF Len(agent.tour) = 0 THEN agent
    ELSE [agent EXCEPT !.tour = Append(@, agent.tour[1])]

\* Faulty variant of getUnvisitedNodes: the tabu list is not consulted
getUnvisitedNodesAll(agent, totalNodes) == Ascending(NodeIds(totalNodes))

getUnvisitedNodes(agent, totalNodes) ==
    Ascending({i \in NodeIds(totalNodes) : i \notin agent.tabuList})

---------------------------------------------------------------------------
(* AntColonyOptimization: node selection                                   *)

RandDenominator == 4

\* The values Math.random() returns in the model: i / RandDenominator, in [0, 1)
RandSet == {Norm(i, RandDenominator) : i \in 0..(RandDenominator - 1)}

stopped == status = "Stopped"

\* pheromone^alpha * visibility^beta of the move currentNode -> nextNode
attractivenessOf(currentNode, nextNode) ==
    LET distance == getDistance(currentNode, nextNode)
        pheromone == getPheromone(pheromones, currentNode, nextNode)
        visibility == IF distance = Zero THEN Infinity ELSE Div(One, distance)
    IN  Mul(Pow(pheromone, params.alpha), Pow(visibility, params.beta))

RECURSIVE SumSeq(_, _)
SumSeq(s, i) == IF i > Len(s) THEN Zero ELSE Add(s[i], SumSeq(s, i + 1))

\* the roulette loop from index i on (1-based), cumulativeProbability so far
RECURSIVE rouletteFrom(_, _, _, _, _)
rouletteFrom(reachableNodes, attractiveness, random, i, cumulativeProbability) ==
    IF i > Len(reachableNodes) THEN reachableNodes[Len(reachableNodes)]
    ELSE LET cum == Add(cumulativeProbability, attractiveness[i])
         IN  IF Le(random, cum) THEN reachableNodes[i]
             ELSE rouletteFrom(reachableNodes, attractiveness, random, i + 1, cum)

\* _selectNextNode(agent); rnd is the value the call of Math.random() returns
selectNextNode(agent, rnd) ==
    LET currentNode == agent.position
        unvisitedNodes == getUnvisitedNodes(agent, nodeCount)
        reachableNodes == getReachableNodes(agent.position, unvisitedNodes)
        attractiveness == [i \in 1..Len(reachableNodes) |->
                              attractivenessOf(currentNode, reachableNodes[i])]
        totalProbability == SumSeq(attractiveness, 1)
    IN  IF Len(unvisitedNodes) = 0 THEN agent.tour[1]
        ELSE IF Len(reachableNodes) = 0 THEN agent.tour[1]
        ELSE IF Len(reachableNodes) = 1 THEN reachableNodes[1]
        ELSE IF Le(totalProbability, Zero)
             THEN reachableNodes[Floor(Mul(rnd, Int2Num(Len(reachableNodes)))) + 1]
        ELSE rouletteFrom(reachableNodes, attractiveness,
                          Mul(rnd, totalProbability), 1, Zero)

\* one agent's turn in _moveAgents: the agents it can become, over the draws
moveAgent(agent) ==
    IF agent.visitedCount # nodeCount
    THEN {moveTo(agent, selectNextNode(agent, rnd)) : rnd \in RandSet}
    ELSE {agent}

\* _moveAgents: the agent lists one call can produce, agents i.. still to move
RECURSIVE moveAgentsFrom(_, _)
moveAgentsFrom(ags, i) ==
    IF i > Len(ags) THEN {ags}
    ELSE UNION {moveAgentsFrom([ags EXCEPT ![i] = a], i + 1) : a \in moveAgent(ags[i])}

moveAgents(ags) == moveAgentsFrom(ags, 1)

\* the construction loop of _executeIteration: `steps` calls of _moveAgents
RECURSIVE construction(_, _)
construction(ags, steps) ==
    IF steps <= 0 THEN {ags}
    ELSE UNION {construction(moved, steps - 1) : moved \in moveAgents(ags)}

---------------------------------------------------------------------------
(* AntColonyOptimization: pheromone update, iteration                      *)

\* the deposit loop over the edges of a tour, from position i on
RECURSIVE depositFrom(_, _, _, _)
depositFrom(ph, tour, i, deposit) ==
    IF i >= Len(tour) THEN ph
    ELSE LET from == tour[i]
             to == tour[i + 1]
             currentPheromone == getPheromone(ph, from, to)
         IN  depositFrom(updatePheromone(ph, from, to, Add(currentPheromone, deposit)),
                         tour, i + 1, deposit)

\* the loop over the agents, from agent a on
RECURSIVE depositAgentsFrom(_, _, _)
depositAgentsFrom(ph, ags, a) ==
    IF a > Len(ags) THEN ph
    ELSE LET pheromoneDeposit == Div(params.Q, ags[a].tourLength)
         IN  depositAgentsFrom(depositFrom(ph, ags[a].tour, 1, pheromoneDeposit), ags, a + 1)

\* _updatePheromones(bestAgent) on the agents ags and the field ph
updatePheromones(best, ags, ph) ==
    LET evaporated == evaporatePheromones(ph, params.evaporationRate)
        deposited == depositAgentsFrom(evaporated, ags, 1)
    IN  IF IsSome(best) /\ IsSome(params.elitistCount) /\ Get(params.elitistCount) # 0
        THEN LET elitistPheromone ==
                     Div(Mul(params.Q, Int2Num(Get(params.elitistCount))), Get(best).tourLength)
             IN  depositFrom(deposited, Get(best).tour, 1, elitistPheromone)
        ELSE deposited

\* Faulty variant of findBestFrom: an agent as short as the best so far replaces it
RECURSIVE findBestFromLatest(_, _, _)
findBestFromLatest(ags, a, best) ==
    IF a > Len(ags) THEN best
    ELSE IF ags[a].tourLength = Infinity THEN findBestFromLatest(ags, a + 1, best)
    ELSE IF best.tourLength = Infinity THEN findBestFromLatest(ags, a + 1, ags[a])
    ELSE IF Le(ags[a].tourLength, best.tourLength) THEN findBestFromLatest(ags, a + 1, ags[a])
    ELSE findBestFromLatest(ags, a + 1, best)

\* the loop of _findBestAgent from agent a on
RECURSIVE findBestFrom(_, _, _)
findBestFrom(ags, a, best) ==
    IF a > Len(ags) THEN best
    ELSE IF ags[a].tourLength = Infinity THEN findBestFrom(ags, a + 1, best)
    ELSE IF best.tourLength = Infinity THEN findBestFrom(ags, a + 1, ags[a])
    ELSE IF Lt(ags[a].tourLength, best.tourLength) THEN findBestFrom(ags, a + 1, ags[a])
    ELSE findBestFrom(ags, a + 1, best)

findBestAgent(ags) == findBestFrom(ags, 1, ags[1])

\* Faulty variant of SumLengths: the reduction starts from 1 instead of 0
RECURSIVE SumLengthsFromOne(_, _)
SumLengthsFromOne(ags, a) ==
    IF a > Len(ags) THEN One ELSE Add(ags[a].tourLength, SumLengthsFromOne(ags, a + 1))

\* this._agents.reduce((sum, agent) => sum + agent.tourLength, 0), from agent a on
RECURSIVE SumLengths(_, _)
SumLengths(ags, a) ==
    IF a > Len(ags) THEN Zero ELSE Add(ags[a].tourLength, SumLengths(ags, a + 1))

\* Faulty variant of isShorter: a tour as long as the incumbent's replaces it
isShorterOrEqual(agent, best) == Le(agent.tourLength, best.tourLength)

\* iterationBestAgent.tourLength < this._bestAgent.tourLength
isShorter(agent, best) == Lt(agent.tourLength, best.tourLength)

\* _executeIteration(iteration) after the construction loop left the agents `moved`:
\* the agents, the incumbent, the pheromone field and the result it leaves
\* threw is TRUE when the call ends by a TypeError instead of returning:
\*  - on a graph without nodes the first agent's closed tour is [NaN, NaN] and
\*    calculateDistance reads this.distances[NaN][NaN], a property of undefined
\*    (line 151; the agents after the first are not reached);
\*  - without agents _findBestAgent returns undefined: with no incumbent the
\*    test !this._bestAgent short-circuits and new Agent(undefined) is
\*    new Agent(0), with an incumbent iterationBestAgent.tourLength is read
\*    (line 154).
executeIteration(iteration, moved) ==
    LET throwsAtDistance == nodeCount = 0 /\ Len(moved) > 0
        closed == IF throwsAtDistance
                  THEN [moved EXCEPT ![1] = closeTour(moved[1])]
                  ELSE [a \in 1..Len(moved) |->
                           LET c == closeTour(moved[a])
                           IN  [c EXCEPT !.tourLength = calculateDistance(c.tour)]]
        iterationBestAgent == IF Len(closed) = 0 \/ throwsAtDistance THEN None
                              ELSE Some(findBestAgent(closed))
        throwsAtBest == ~throwsAtDistance /\ IsSome(bestAgent) /\ ~IsSome(iterationBestAgent)
        threw == throwsAtDistance \/ throwsAtBest
        newBest == IF threw THEN bestAgent
                   ELSE IF ~IsSome(bestAgent)
                   THEN Some(IF IsSome(iterationBestAgent)
                             THEN copyAgent(Get(iterationBestAgent))
                             ELSE reset(0))
                   ELSE IF isShorter(Get(iterationBestAgent), Get(bestAgent))
                   THEN Some(copyAgent(Get(iterationBestAgent)))
                   ELSE bestAgent
        totalLength == SumLengths(closed, 1)
        averageLength == Div(totalLength, Int2Num(Len(closed)))
    IN  [threw |-> threw,
         agents |-> closed,
         bestAgent |-> newBest,
         pheromones |-> IF threw THEN pheromones
                        ELSE updatePheromones(newBest, closed, pheromones),
         result |-> IF threw THEN None
                    ELSE Some([iteration |-> iteration,
                               bestTour |-> Get(newBest).tour,
                               bestLength |-> Get(newBest).tourLength,
                               averageLength |-> averageLength,
                               converged |-> FALSE])]

\* i % this._graph.nodes.length for the i-th agent (0-based): NaN on a graph
\* without nodes
startPositionOf(i) == IF nodeCount = 0 THEN NaN ELSE i % nodeCount

resetAgents(ags) == [i \in 1..Len(ags) |-> reset(startPositionOf(i - 1))]

\* _initialize: the agents it creates
initialize(antCount) == [i \in 1..antCount |-> reset(startPositionOf(i - 1))]

---------------------------------------------------------------------------
(* AntColonyOptimization: the iteration generator, start and stop          *)

\* Faulty variant of createIterationGenerator: the iteration counter starts at -1
createIterationGeneratorFromMinusOne ==
    [pc |-> "created", currentIteration |-> -1, noImprovementCount |-> 0,
     converged |-> FALSE, pulls |-> 0, emitted |-> 0, returned |-> "none",
     value |-> None]

\* A generator start() has returned.  pc is where it is suspended: "created"
\* (not pulled yet), "yielded" (at the yield) or "done" (returned or ended by
\* an exception).
\* currentIteration, noImprovementCount and converged are its locals
\* (converged is iterationResult.converged of the result it yielded last).
\* pulls, emitted, returned and value record what its caller has seen: the
\* number of next() calls, the number of results among them, and what the last
\* call returned ("none" before the first call, "value" with Some(result) in
\* value, "done", or "threw" when the call ended by a TypeError).
createIterationGenerator ==
    [pc |-> "created", currentIteration |-> 0, noImprovementCount |-> 0,
     converged |-> FALSE, pulls |-> 0, emitted |-> 0, returned |-> "none",
     value |-> None]

\* Faulty variant of start(): the status is not set
StartKeepsStatus ==
    /\ Len(gens) < MaxStarts
    /\ agents' = initialize(params.antCount)
    /\ bestAgent' = None
    /\ status' = status
    /\ gens' = Append(gens, createIterationGenerator)
    /\ UNCHANGED <<graphParams, nodes, distances, pheromones, params, notifications>>
    /\ UNCHANGED <<source, copy, shared, structure, app, runResults, evaluation>>

\* Faulty variant of start(): the pheromone field is set back to initialPheromone
StartWithFreshPheromone ==
    /\ Len(gens) < MaxStarts
    /\ agents' = initialize(params.antCount)
    /\ bestAgent' = None
    /\ status' = "Running"
    /\ notifications' = notifications + 1
    /\ gens' = Append(gens, createIterationGenerator)
    /\ pheromones' = createMatrix(nodeCount, params.initialPheromone)
    /\ UNCHANGED <<graphParams, nodes, distances, params>>
    /\ UNCHANGED <<source, copy, shared, structure, app, runResults, evaluation>>

\* start(graph, params)
Start ==
    /\ Len(gens) < MaxStarts
    /\ agents' = initialize(params.antCount)
    /\ bestAgent' = None
    /\ status' = "Running"
    /\ notifications' = notifications + 1
    /\ gens' = Append(gens, createIterationGenerator)
    /\ UNCHANGED <<graphParams, nodes, distances, pheromones, params, source, copy, shared, structure, app, runResults, evaluation>>

\* Faulty variant of stop(): the status is set without looking at it first
StopUnguarded ==
    /\ status' = "Stopped"
    /\ notifications' = notifications + 1
    /\ UNCHANGED <<graphParams, nodes, distances, pheromones, params, agents, bestAgent, gens>>
    /\ UNCHANGED <<source, copy, shared, structure, app, runResults, evaluation>>

\* stop()
Stop ==
    /\ status' = IF ~stopped THEN "Stopped" ELSE status
    /\ notifications' = IF ~stopped THEN notifications + 1 ELSE notifications
    /\ UNCHANGED <<graphParams, nodes, distances, pheromones, params, agents, bestAgent, gens>>
    /\ UNCHANGED <<source, copy, shared, structure, app, runResults, evaluation>>

\* Faulty variant of breaksAfterYield: the converged result does not end the loop
breaksAfterYieldIgnoresConverged(gen) ==
    LET reachedIterationLimit == gen.currentIteration >= params.maxIterations
    IN  stopped \/ reachedIterationLimit

\* Faulty variant of breaksAfterYield: a stop() seen after the yield does not
\* break, so the agents are reset before the loop condition ends the run
breaksAfterYieldIgnoresStop(gen) ==
    LET reachedIterationLimit == gen.currentIteration >= params.maxIterations
    IN  gen.converged \/ reachedIterationLimit

\* Faulty variant of breaksAfterYield: a result with an infinite averageLength
\* ends the run
breaksAfterYieldOnInfinite(gen) ==
    LET reachedIterationLimit == gen.currentIteration >= params.maxIterations
        infinite == IsSome(gen.value) /\ Get(gen.value).averageLength = Infinity
    IN  stopped \/ gen.converged \/ reachedIterationLimit \/ infinite

\* The statements after the yield, run when a suspended generator is resumed:
\* TRUE when they reach the break
breaksAfterYield(gen) ==
    LET reachedIterationLimit == gen.currentIteration >= params.maxIterations
    IN  stopped \/ gen.converged \/ reachedIterationLimit

\* Faulty variant of whileCondition: the loop does not look at the status
whileConditionIgnoresStop(gen) == gen.currentIteration < params.maxIterations

\* while (currentIteration < this._params.maxIterations && !this._stopped)
whileCondition(gen) == gen.currentIteration < params.maxIterations /\ ~stopped

\* Faulty variant of nextIteration: the increment is lost
nextIterationSame(gen) == gen.currentIteration

\* currentIteration++
nextIteration(gen) == gen.currentIteration + 1

\* The body of the while loop up to the yield, for the generator gen: what the
\* call of next() leaves when the construction loop left the agents `moved`
loopBody(gen, moved) ==
    LET currentIteration == nextIteration(gen)
        it == executeIteration(currentIteration, moved)
        globalBestLength == IF IsSome(it.bestAgent) THEN Get(it.bestAgent).tourLength
                            ELSE Infinity
        iterationResult == Get(it.result)
        noImprovementCount == IF Lt(iterationResult.bestLength, globalBestLength)
                              THEN 0
                              ELSE gen.noImprovementCount + 1
        converged == noImprovementCount >= params.improvementThreshold
    IN  IF it.threw
        THEN it @@ [gen |-> [gen EXCEPT !.pc = "done",
                                        !.currentIteration = currentIteration,
                                        !.pulls = @ + 1,
                                        !.returned = "threw",
                                        !.value = None]]
        ELSE it @@ [gen |-> [gen EXCEPT !.pc = "yielded",
                                        !.currentIteration = currentIteration,
                                        !.noImprovementCount = noImprovementCount,
                                        !.converged = converged,
                                        !.pulls = @ + 1,
                                        !.emitted = @ + 1,
                                        !.returned = "value",
                                        !.value = Some([iterationResult EXCEPT
                                                           !.converged = converged])]]

RECURSIVE TotalPulls(_, _)
TotalPulls(gs, g) == IF g > Len(gs) THEN 0 ELSE gs[g].pulls + TotalPulls(gs, g + 1)

\* generator.next() on the g-th generator: what it does to the service and to
\* the generator
GeneratorStep(g) ==
    /\ g \in DOMAIN gens
    /\ TotalPulls(gens, 1) < MaxPulls
    /\ LET gen == gens[g]
           resumed == gen.pc = "yielded"
           continues == gen.pc = "created" \/ (resumed /\ ~breaksAfterYield(gen))
           ags == IF resumed /\ continues THEN resetAgents(agents) ELSE agents
           loops == continues /\ whileCondition(gen)
       IN  IF loops
           THEN \E moved \in construction(ags, nodeCount - 1) :
                    \E out \in {loopBody(gen, moved)} :
                        /\ agents' = out.agents
                        /\ bestAgent' = out.bestAgent
                        /\ pheromones' = out.pheromones
                        /\ gens' = [gens EXCEPT ![g] = out.gen]
                        /\ status' = status
                        /\ notifications' = notifications
           ELSE /\ agents' = ags
                /\ status' = IF gen.pc = "done" THEN status ELSE "Stopped"
                /\ notifications' = IF gen.pc = "done" THEN notifications
                                    ELSE notifications + 1
                /\ gens' = [gens EXCEPT ![g] = [gen EXCEPT !.pc = "done",
                                                         !.pulls = @ + 1,
                                                         !.returned = "done",
                                                         !.value = None]]
                /\ UNCHANGED <<bestAgent, pheromones>>

\* generator.next() on the g-th generator, called on the service directly
GeneratorNext(g) ==
    /\ GeneratorStep(g)
    /\ UNCHANGED <<graphParams, nodes, distances, params, source, copy, shared, structure,
                   app, runResults, evaluation>>

Next ==
    \/ Start
    \/ Stop
    \/ \E g \in 1..MaxStarts : GeneratorNext(g)

---------------------------------------------------------------------------
(* Initial states: the graph the constructor builds and the parameters     *)

\* new Graph({...graphParams, initialPheromone}, randomService) and an idle service
InitService(gp, layout, stream, ap) ==
    /\ \A i \in 1..gp.count : /\ InCoordinateRange(gp.count, layout[i][1])
                               /\ InCoordinateRange(gp.count, layout[i][2])
    /\ graphParams = gp
    /\ nodes = generateNodes(gp.count, layout)
    /\ distances = buildDistanceMatrix(generateNodes(gp.count, layout), gp, stream)
    /\ pheromones = createMatrix(gp.count, ap.initialPheromone)
    /\ params = ap
    /\ status = "Stopped"
    /\ notifications = 0
    /\ agents = <<>>
    /\ bestAgent = None
    /\ gens = <<>>
    /\ source = None
    /\ copy = None
    /\ shared = {}

\* The graph and the service on their own: no structure under construction, no
\* AppComponent
InitWith(gp, layout, stream, ap) ==
    /\ InitService(gp, layout, stream, ap)
    /\ structure = None
    /\ app = None
    /\ runResults = <<>>
    /\ evaluation = None

\* Node placements: on a line 3 apart, and on the corners of a 3 x 4 rectangle
\* (corner i mod 4 for node i)
LineLayout(count) == [i \in 1..count |-> <<3 * (i - 1), 0>>]
RectLayout(count) == [i \in 1..count |->
                        <<IF (i - 1) % 4 \in {1, 2} THEN 3 ELSE 0,
                          IF (i - 1) % 4 \in {2, 3} THEN 4 ELSE 0>>]

GraphParams(count, edgesPerNode, minDistance, maxDistance) ==
    [count |-> count, edgesPerNode |-> edgesPerNode,
     minDistance |-> minDistance, maxDistance |-> maxDistance]

\* The parameter records with antCount, maxIterations and improvementThreshold
\* within the bounds, and at most MaxMoves moves in one construction phase
AlgorithmParamsSet(count, evaporationRates, elitistCounts) ==
    {ap \in [antCount : 1..MaxAnts,
             maxIterations : 1..MaxIterations,
             alpha : {1},
             beta : {1},
             evaporationRate : evaporationRates,
             Q : {One},
             elitistCount : elitistCounts,
             improvementThreshold : 1..MaxThreshold,
             initialPheromone : {One}] :
        ap.antCount * (count - 1) <= MaxMoves}

\* The node counts of the complete graphs
CompleteCounts == {1, 2, 3}

\* complete graphs on the corners of the rectangle
Init ==
    \E count \in CompleteCounts :
        \E ap \in AlgorithmParamsSet(count, {Norm(1, 2)}, {Some(1)}) :
            InitWith(GraphParams(count, None, None, None), RectLayout(count), <<Zero>>, ap)

Spec == Init /\ [][Next]_vars

\* start() on a service that has not been started before
StartOnce == gens = <<>> /\ Start

\* a single run: one start(), then stop() and next() in any order
NextSingleRun ==
    \/ StartOnce
    \/ Stop
    \/ GeneratorNext(1)

\* The edgesPerNode values of the k-regular graphs
EdgesPerNode == {2, 3}

\* k-regular graphs of 3..MaxRingCount nodes: nodes on the line with euclidean
\* weights, or weights drawn from [1, 3) with the draws 0, 1/2, 0, 1/2, ...
InitKRegular ==
    \E count \in 3..MaxRingCount : \E k \in EdgesPerNode :
        \E range \in {<<None, None>>, <<Some(1), Some(3)>>} :
            \E ap \in AlgorithmParamsSet(count, {Norm(1, 2)}, {Some(1)}) :
                InitWith(GraphParams(count, Some(k), range[1], range[2]),
                         LineLayout(count), <<Zero, Norm(1, 2)>>, ap)

SpecKRegular == InitKRegular /\ [][NextSingleRun]_vars

\* The node counts of the complete graphs of the pheromone runs
PheromoneCounts == {1, 3, 4}

\* complete graphs, with the evaporation rates 0, 1/2 and 1 and with elitistCount
\* absent, 0 and 2, run for MaxIterations iterations
InitPheromone ==
    \E count \in PheromoneCounts :
        \E ap \in AlgorithmParamsSet(count, {Zero, Norm(1, 2), One},
                                     {None, Some(0), Some(2)}) :
            /\ ap.improvementThreshold = MaxThreshold
            /\ ap.maxIterations = MaxIterations
            /\ InitWith(GraphParams(count, None, None, None), RectLayout(count), <<Zero>>, ap)

SpecPheromone == InitPheromone /\ [][NextSingleRun]_vars

\* The node counts of the graphs of the runs with malformed parameters
MalformedCounts == {2, 3}

\* antCount = 0, Q <= 0 or evaporationRate outside [0, 1]
Malformed(ap) ==
    \/ ap.antCount = 0
    \/ Le(ap.Q, Zero)
    \/ Lt(ap.evaporationRate, Zero)
    \/ Lt(One, ap.evaporationRate)

\* complete graphs of two and three nodes with parameter records that have one
\* malformed field: no agents, Q of 0 or -1, or an evaporation rate of -1/2 or
\* 3/2.  (On these graphs every tour an agent closes has a positive length, so
\* no negative number meets a division by zero.)
InitMalformed ==
    \E count \in MalformedCounts :
        \E ap \in [antCount : 0..MaxAnts,
                   maxIterations : 1..MaxIterations,
                   alpha : {1},
                   beta : {1},
                   evaporationRate : {Norm(-1, 2), Norm(1, 2), Norm(3, 2)},
                   Q : {Int2Num(-1), Zero, One},
                   elitistCount : {Some(1)},
                   improvementThreshold : 1..MaxThreshold,
                   initialPheromone : {One}] :
            /\ ap.antCount * (count - 1) <= MaxMoves
            /\ \/ ap.antCount = 0 /\ ap.Q = One /\ ap.evaporationRate = Norm(1, 2)
               \/ ap.antCount > 0 /\ ap.Q # One /\ ap.evaporationRate = Norm(1, 2)
               \/ ap.antCount > 0 /\ ap.Q = One /\ ap.evaporationRate # Norm(1, 2)
            /\ InitWith(GraphParams(count, None, None, None), RectLayout(count), <<Zero>>, ap)

SpecMalformed == InitMalformed /\ [][NextSingleRun]_vars

\* The topologies of the graphs of the builder runs: complete (no edgesPerNode)
\* and k-regular with 2, 3 and 4 edges per node
Topologies == {None, Some(2), Some(3), Some(4)}

\* The minDistance / maxDistance pairs: absent, [1, 3], minDistance 4 alone, and
\* [-2, 2]
DistanceRanges == {<<None, None>>, <<Some(1), Some(3)>>, <<Some(4), None>>,
                   <<Some(-2), Some(2)>>}

\* The node counts per topology: complete graphs of 1..3 nodes, k-regular graphs
\* of 1..MaxRingCount nodes for k < 4, and of 1 and 2 nodes (edgesPerNode >=
\* 2 * count) for k = 4
CountsOf(k) == IF ~IsSome(k) THEN CompleteCounts
               ELSE IF Get(k) >= 4 THEN {1, 2}
               ELSE 1..MaxRingCount

\* the graphs the builder makes of nodes on the line for these topologies and
\* ranges, the random weights drawn as 0, 1/2, 0, 1/2, ...
InitGraph ==
    \E k \in Topologies : \E count \in CountsOf(k) : \E range \in DistanceRanges :
        \E ap \in AlgorithmParamsSet(count, {Norm(1, 2)}, {Some(1)}) :
            /\ ap.improvementThreshold = MaxThreshold
            /\ InitWith(GraphParams(count, k, range[1], range[2]),
                        LineLayout(count), <<Zero, Norm(1, 2)>>, ap)

SpecGraph == InitGraph /\ [][NextSingleRun]_vars

\* The node counts and edgesPerNode values of the graphs built from invalid
\* GraphParams
InvalidCounts == {0, 2, 3}
InvalidTopologies == {None, Some(0), Some(1)}

\* count < 1, or edgesPerNode present but < 2
InvalidGraphParams(gp) ==
    \/ gp.count < 1
    \/ IsSome(gp.edgesPerNode) /\ Get(gp.edgesPerNode) < 2

\* the graphs the constructor makes from invalid GraphParams
InitInvalidGraph ==
    \E count \in InvalidCounts : \E k \in InvalidTopologies :
        \E ap \in AlgorithmParamsSet(count, {Norm(1, 2)}, {Some(1)}) :
            /\ InvalidGraphParams(GraphParams(count, k, None, None))
            /\ InitWith(GraphParams(count, k, None, None), LineLayout(count), <<Zero>>, ap)

SpecInvalidGraph == InitInvalidGraph /\ [][NextSingleRun]_vars

\* The node counts of the sparse 4-regular graphs: every node is joined to the
\* two nodes before it and the two after it, and not to the one node (of six)
\* or the two nodes (of seven) opposite
SparseCounts == {6, 7}

\* 4-regular graphs with euclidean weights, nodes on the line, one agent
InitSparse ==
    \E count \in SparseCounts :
        \E ap \in [antCount : {1},
                   maxIterations : 1..MaxIterations,
                   alpha : {1},
                   beta : {1},
                   evaporationRate : {Norm(1, 2)},
                   Q : {One},
                   elitistCount : {Some(1)},
                   improvementThreshold : 1..MaxThreshold,
                   initialPheromone : {One}] :
            InitWith(GraphParams(count, Some(4), None, None), LineLayout(count), <<Zero>>, ap)

SpecSparse == InitSparse /\ [][NextSingleRun]_vars

\* The node counts and the edgesPerNode values of the graphs whose edge
\* structure is examined: k below, at and above count - 1, and from 2 * count
\* on, where a chord offset is a multiple of count
StructureCounts == {3, 4, 5, 6, 7}
StructureDegrees == 2..14

\* The state of _generateKRegularStructure between two of its loops: the edges
\* and degrees so far, the loop that comes next, the chord offset and the
\* targetDegree of the filling loop
StructureAt(st, step, offset, targetDegree) ==
    [edges |-> st.edges, degree |-> st.degree, step |-> step,
     offset |-> offset, targetDegree |-> targetDegree]

\* The arguments n and k of the call
StructureN == graphParams.count
StructureK == Get(graphParams.edgesPerNode)

\* Step 1: the ring
StructureRing ==
    /\ structure.step = "ring"
    /\ structure' = StructureAt(ringFrom(structure, 0, StructureN), "chords", 2, 0)
    /\ UNCHANGED <<graphParams, nodes, distances, pheromones, params, status, notifications,
                   agents, bestAgent, gens, source, copy, shared, app, runResults, evaluation>>

\* Step 2: the chords of one offset
StructureChords ==
    /\ structure.step = "chords"
    /\ structure.offset <= StructureK \div 2
    /\ structure' = StructureAt(chordsFrom(structure, structure.offset, 0,
                                           StructureN, StructureK),
                                "chords", structure.offset + 1, 0)
    /\ UNCHANGED <<graphParams, nodes, distances, pheromones, params, status, notifications,
                   agents, bestAgent, gens, source, copy, shared, app, runResults, evaluation>>

\* Step 3: the diameter edges when k is odd and n is even; Math.min(...degree)
\* is where the filling loop starts
StructureDiameters ==
    /\ structure.step = "chords"
    /\ structure.offset > StructureK \div 2
    /\ LET st == IF StructureK % 2 = 1 /\ StructureN % 2 = 0
                 THEN diametersFrom(structure, 0, StructureN, StructureK)
                 ELSE structure
       IN  structure' = StructureAt(st, "fill", structure.offset,
                                    MinDegree(st.degree, StructureN))
    /\ UNCHANGED <<graphParams, nodes, distances, pheromones, params, status, notifications,
                   agents, bestAgent, gens, source, copy, shared, app, runResults, evaluation>>

\* Step 4: one pass of the filling loop
StructureFill ==
    /\ structure.step = "fill"
    /\ structure.targetDegree < StructureK
    /\ structure' = StructureAt(fillPassFrom(structure, 0, StructureN, StructureK),
                                "fill", structure.offset, structure.targetDegree + 1)
    /\ UNCHANGED <<graphParams, nodes, distances, pheromones, params, status, notifications,
                   agents, bestAgent, gens, source, copy, shared, app, runResults, evaluation>>

\* return edges
StructureReturn ==
    /\ structure.step = "fill"
    /\ structure.targetDegree >= StructureK
    /\ structure' = [structure EXCEPT !.step = "done"]
    /\ UNCHANGED <<graphParams, nodes, distances, pheromones, params, status, notifications,
                   agents, bestAgent, gens, source, copy, shared, app, runResults, evaluation>>

NextStructure ==
    \/ StructureRing
    \/ StructureChords
    \/ StructureDiameters
    \/ StructureFill
    \/ StructureReturn

\* The algorithm parameters of the graphs whose structure is examined
StructureParams ==
    [antCount |-> 1, maxIterations |-> 1, alpha |-> 1, beta |-> 1,
     evaporationRate |-> Norm(1, 2), Q |-> One, elitistCount |-> None,
     improvementThreshold |-> 1, initialPheromone |-> One]

\* _generateKRegularStructure(count, k) at its first line, called by the
\* constructor of a Graph with the nodes on the line: the distance matrix is
\* still the one _createMatrix(0) returned and there are no pheromones yet
InitStructure ==
    \E count \in StructureCounts : \E k \in StructureDegrees :
        /\ graphParams = GraphParams(count, Some(k), None, None)
        /\ nodes = generateNodes(count, LineLayout(count))
        /\ distances = createMatrix(count, Zero)
        /\ pheromones = None
        /\ params = StructureParams
        /\ status = "Stopped"
        /\ notifications = 0
        /\ agents = <<>>
        /\ bestAgent = None
        /\ gens = <<>>
        /\ source = None
        /\ copy = None
        /\ shared = {}
        /\ structure = StructureAt([edges |-> <<>>, degree |-> [i \in NodeIds(count) |-> 0]],
                                   "ring", 0, 0)
        /\ app = None
        /\ runResults = <<>>
        /\ evaluation = None
    /\ evaluation = None

SpecStructure == InitStructure /\ [][NextStructure]_vars

\* The node counts of the 4-regular graphs of the runs of two agents
ColonyCounts == {6}

\* one iteration of two agents on a 4-regular graph with euclidean weights
InitColony ==
    \E count \in ColonyCounts :
        \E ap \in [antCount : {2},
                   maxIterations : {1},
                   alpha : {1},
                   beta : {1},
                   evaporationRate : {Norm(1, 2)},
                   Q : {One},
                   elitistCount : {Some(1)},
                   improvementThreshold : {1},
                   initialPheromone : {One}] :
            InitWith(GraphParams(count, Some(4), None, None), LineLayout(count), <<Zero>>, ap)

SpecColony == InitColony /\ [][NextSingleRun]_vars

\* The node counts of the graphs of the repeated runs: on the corners of the
\* 3 x 4 rectangle a tour has length 14, 16 or 18
RunCounts == {4}

\* one agent on the complete graph of four nodes, run for MaxIterations
\* iterations, started up to MaxStarts times; with evaporationRate 1 and no
\* elitist deposit the pheromone field holds the deposit of the last tour only
InitRuns ==
    \E count \in RunCounts :
        \E ap \in AlgorithmParamsSet(count, {One}, {None}) :
            /\ ap.antCount = 1
            /\ ap.maxIterations = MaxIterations
            /\ ap.improvementThreshold = MaxThreshold
            /\ InitWith(GraphParams(count, None, None, None), RectLayout(count), <<Zero>>, ap)

SpecRuns == InitRuns /\ [][Next]_vars

---------------------------------------------------------------------------
(* AppComponent: the driver that starts runs and pulls results on a timer  *)

\* app.graph is <<>> when the signal holds the Graph object that is in the
\* variables graphParams, nodes, distances and pheromones, and <<graph>> when it
\* holds another one
HeldGraph == <<>>

\* new Graph({...graphParamsValue, initialPheromone}): a complete graph on the
\* corners of the rectangle
newGraph(gp, initialPheromone) ==
    [graphParams |-> gp,
     nodes |-> generateNodes(gp.count, RectLayout(gp.count)),
     distances |-> buildDistanceMatrix(generateNodes(gp.count, RectLayout(gp.count)),
                                       gp, <<Zero>>),
     pheromones |-> createMatrix(gp.count, initialPheromone)]

\* The Graph object the signal app.graph holds
appGraph ==
    IF app.graph = HeldGraph
    THEN [graphParams |-> graphParams, nodes |-> nodes, distances |-> distances,
          pheromones |-> pheromones]
    ELSE app.graph[1]

\* _stopAlgorithmLoop
stopAlgorithmLoop(component) ==
    [component EXCEPT !.algorithmLoopSub = FALSE, !.algorithmIterator = None]

\* The graph parameters and the algorithm parameters the forms send
AppGraphParams == {GraphParams(2, None, None, None), GraphParams(3, None, None, None)}
AppAlgorithmParams ==
    [antCount : {1},
     maxIterations : {1, MaxIterations},
     alpha : {1},
     beta : {1},
     evaporationRate : {One},
     Q : {One},
     elitistCount : {None},
     improvementThreshold : {MaxThreshold},
     initialPheromone : {One}]

\* onStart(): the old loop is dropped, start(graph, algorithmParams) is called
\* with the graph of the signal, the history is cleared and a new timer
\* subscription is made
OnStart ==
    /\ ~app.destroyed
    /\ Len(gens) < MaxStarts
    /\ graphParams' = appGraph.graphParams
    /\ nodes' = appGraph.nodes
    /\ distances' = appGraph.distances
    /\ pheromones' = appGraph.pheromones
    /\ params' = app.algorithmParams
    /\ agents' = [i \in 1..app.algorithmParams.antCount |->
                     reset((i - 1) % appGraph.graphParams.count)]
    /\ bestAgent' = None
    /\ status' = "Running"
    /\ notifications' = notifications + 1
    /\ gens' = Append(gens, createIterationGenerator)
    /\ app' = [app EXCEPT !.graph = HeldGraph,
                          !.algorithmIterator = Some(Len(gens) + 1),
                          !.algorithmLoopSub = TRUE,
                          !.iterations = <<>>,
                          !.iteration = None]
    /\ runResults' = <<>>
    /\ UNCHANGED <<source, copy, shared, structure, evaluation>>

\* onStop(): the loop is dropped and stop() is called on the service
OnStop ==
    /\ ~app.destroyed
    /\ app' = stopAlgorithmLoop(app)
    /\ status' = IF ~stopped THEN "Stopped" ELSE status
    /\ notifications' = IF ~stopped THEN notifications + 1 ELSE notifications
    /\ UNCHANGED <<graphParams, nodes, distances, pheromones, params, agents, bestAgent, gens>>
    /\ UNCHANGED <<source, copy, shared, structure, runResults, evaluation>>

\* The callback of the timer subscription.  this.status() is the value the
\* service emitted last.  A call of next() that reports the end is followed by
\* onStop(); one that throws leaves the callback at once.
Tick ==
    /\ ~app.destroyed
    /\ app.algorithmLoopSub
    /\ IF status = "Running" /\ IsSome(app.algorithmIterator)
       THEN LET g == Get(app.algorithmIterator)
            IN  IF gens[g].pc = "done"
                THEN /\ TotalPulls(gens, 1) < MaxPulls
                     /\ gens' = [gens EXCEPT ![g] = [@ EXCEPT !.pulls = @ + 1,
                                                              !.returned = "done",
                                                              !.value = None]]
                     /\ status' = "Stopped"
                     /\ notifications' = notifications + 1
                     /\ app' = stopAlgorithmLoop(app)
                     /\ UNCHANGED <<agents, bestAgent, pheromones, runResults, evaluation>>
                ELSE /\ GeneratorStep(g)
                     /\ app' = IF gens'[g].returned = "value"
                               THEN [app EXCEPT !.iteration = gens'[g].value,
                                                !.iterations = Append(@, Get(gens'[g].value))]
                               ELSE IF gens'[g].returned = "done"
                               THEN stopAlgorithmLoop(app)
                               ELSE app
                     /\ runResults' = IF gens'[g].returned = "value"
                                      THEN Append(runResults, Get(gens'[g].value))
                                      ELSE runResults
       ELSE UNCHANGED <<status, notifications, agents, bestAgent, pheromones, gens, app,
                        runResults, evaluation>>
    /\ UNCHANGED <<graphParams, nodes, distances, params, source, copy, shared, structure,
                   evaluation>>

\* onGraphParamsChange(params) with params that are not null: the history is
\* cleared and _initializeGraph puts a new Graph into the signal
OnGraphParamsChange(gp) ==
    /\ ~app.destroyed
    /\ app' = [app EXCEPT !.graphParams = gp,
                          !.graph = <<newGraph(gp, app.algorithmParams.initialPheromone)>>,
                          !.iterations = <<>>,
                          !.iteration = None]
    /\ UNCHANGED <<graphParams, nodes, distances, pheromones, params, status, notifications,
                   agents, bestAgent, gens, source, copy, shared, structure, runResults, evaluation>>

\* onAlgorithmParamsChange(params) with params that are not null
OnAlgorithmParamsChange(ap) ==
    /\ ~app.destroyed
    /\ app' = [app EXCEPT !.algorithmParams = ap,
                          !.iterations = <<>>,
                          !.iteration = None]
    /\ UNCHANGED <<graphParams, nodes, distances, pheromones, params, status, notifications,
                   agents, bestAgent, gens, source, copy, shared, structure, runResults, evaluation>>

\* ngOnDestroy()
NgOnDestroy ==
    /\ ~app.destroyed
    /\ app' = [stopAlgorithmLoop(app) EXCEPT !.destroyed = TRUE]
    /\ UNCHANGED <<graphParams, nodes, distances, pheromones, params, status, notifications,
                   agents, bestAgent, gens, source, copy, shared, structure, runResults, evaluation>>

NextApp ==
    \/ OnStart
    \/ OnStop
    \/ Tick
    \/ \E gp \in AppGraphParams : OnGraphParamsChange(gp)
    \/ \E ap \in AppAlgorithmParams : OnAlgorithmParamsChange(ap)
    \/ NgOnDestroy

\* The component after ngOnInit: the status subscription is made and
\* _initializeGraph has built the first graph; the service is idle
InitApp ==
    \E gp \in AppGraphParams : \E ap \in AppAlgorithmParams :
        /\ gp.count = 2
        /\ ap.maxIterations = MaxIterations
        /\ InitService(gp, RectLayout(gp.count), <<Zero>>, ap)
        /\ structure = None
        /\ app = [graph |-> HeldGraph,
                  graphParams |-> gp,
                  algorithmParams |-> ap,
                  iteration |-> None,
                  iterations |-> <<>>,
                  algorithmIterator |-> None,
                  algorithmLoopSub |-> FALSE,
                  destroyed |-> FALSE]
        /\ runResults = <<>>
        /\ evaluation = None
    /\ evaluation = None

SpecApp == InitApp /\ [][NextApp]_vars

---------------------------------------------------------------------------
(* Numbers as binary64: the sums and the quotient of an iteration's result *)

\* A natural number is the sequence of its digits to the base 2^LimbBits
\* (limbs), lowest first and without leading zeros; a finite non-negative
\* binary64 number is <<limbs, exponent>>, the natural number times 2^exponent,
\* with at most MantissaBits significant binary digits.  Only numbers far from
\* the ends of the exponent range occur.
MantissaBits == 53
LimbBits == 20

\* The limbs without leading zeros
LimbsTrim(l) ==
    LET used == {i \in 1..Len(l) : l[i] # 0}
    IN  IF used = {} THEN <<>>
        ELSE SubSeq(l, 1, CHOOSE i \in used : \A j \in used : j <= i)

LimbAt(l, i) == IF i \in 1..Len(l) THEN l[i] ELSE 0

\* a + b + carry from limb i on
RECURSIVE LimbsAddFrom(_, _, _, _)
LimbsAddFrom(a, b, i, carry) ==
    IF i > Len(a) /\ i > Len(b)
    THEN IF carry = 1 THEN <<1>> ELSE <<>>
    ELSE LET t == LimbAt(a, i) + LimbAt(b, i) + carry
         IN  <<t % 2^LimbBits>> \o LimbsAddFrom(a, b, i + 1, t \div 2^LimbBits)

\* l * 2^k
LimbsShiftLeft(l, k) ==
    LET whole == k \div LimbBits
        part == k % LimbBits
    IN  LimbsTrim([i \in 1..(Len(l) + whole + 1) |->
                      (LimbAt(l, i - whole) % 2^(LimbBits - part)) * 2^part
                      + LimbAt(l, i - whole - 1) \div 2^(LimbBits - part)])

\* The number of binary digits of l
BitLength(l) ==
    IF l = <<>> THEN 0
    ELSE LimbBits * (Len(l) - 1)
         + CHOOSE k \in 1..LimbBits : 2^(k - 1) <= l[Len(l)] /\ l[Len(l)] < 2^k

\* Long division by the small number n of the limbs i..1 of l, with rem left
\* over from the limbs above: the limbs of the quotient and the remainder
RECURSIVE LimbsDivFrom(_, _, _, _)
LimbsDivFrom(l, n, i, rem) ==
    IF i = 0 THEN [quotient |-> <<>>, remainder |-> rem]
    ELSE LET r == rem * 2^LimbBits + l[i]
             rest == LimbsDivFrom(l, n, i - 1, r % n)
         IN  [quotient |-> Append(rest.quotient, r \div n), remainder |-> rest.remainder]

\* Round to nearest, ties to even: the number l * 2^exponent (plus a non-zero
\* fraction of its last digit when sticky) as a binary64 number
RoundToNearestEven(l, exponent, sticky) ==
    IF BitLength(l) <= MantissaBits THEN <<l, exponent>>
    ELSE LET dropped == BitLength(l) - MantissaBits
             whole == dropped \div LimbBits
             part == dropped % LimbBits
             \* the binary digit of x at `position`, counted from 0
             BitOf(x, position) ==
                 (LimbAt(x, position \div LimbBits + 1) \div 2^(position % LimbBits)) % 2
             \* l \div 2^dropped
             kept == LimbsTrim([i \in 1..Len(l) |->
                                   LimbAt(l, i + whole) \div 2^part
                                   + (LimbAt(l, i + whole + 1) % 2^part)
                                     * 2^(LimbBits - part)])
             above == sticky \/ \E position \in 0..(dropped - 2) : BitOf(l, position) = 1
             up == BitOf(l, dropped - 1) = 1 /\ (above \/ BitOf(kept, 0) = 1)
         IN  <<IF up THEN LimbsAddFrom(kept, <<1>>, 1, 0) ELSE kept, exponent + dropped>>

\* x + y
F64Add(x, y) ==
    LET exponent == IF x[2] < y[2] THEN x[2] ELSE y[2]
    IN  RoundToNearestEven(LimbsAddFrom(LimbsShiftLeft(x[1], x[2] - exponent),
                                        LimbsShiftLeft(y[1], y[2] - exponent), 1, 0),
                           exponent, FALSE)

\* x / n for an integer n in 1..255 (the length of an array, a small literal):
\* the dividend is given ten digits more than a mantissa has, so that the
\* quotient has more digits than a mantissa
F64DivInt(x, n) ==
    LET shift == MantissaBits + 10 - BitLength(x[1])
        dividend == LimbsShiftLeft(x[1], shift)
        division == LimbsDivFrom(dividend, n, Len(dividend), 0)
    IN  IF x[1] = <<>> THEN x
        ELSE RoundToNearestEven(LimbsTrim(division.quotient), x[2] - shift,
                                division.remainder # 0)

\* x < y
F64Less(x, y) ==
    LET exponent == IF x[2] < y[2] THEN x[2] ELSE y[2]
        a == LimbsShiftLeft(x[1], x[2] - exponent)
        b == LimbsShiftLeft(y[1], y[2] - exponent)
    IN  IF Len(a) # Len(b) THEN Len(a) < Len(b)
        ELSE \E i \in 1..Len(a) : /\ a[i] < b[i]
                                   /\ \A j \in (i + 1)..Len(a) : a[j] = b[j]

\* Graph.calculateDistance for a closed tour of `edges` edges that all have
\* the distance weight: length += weight for every edge, from 0
RECURSIVE calculateDistance64(_, _, _)
calculateDistance64(edges, weight, length) ==
    IF edges = 0 THEN length
    ELSE calculateDistance64(edges - 1, weight, F64Add(length, weight))

\* _findBestAgent on finite lengths: the first of the shortest, from agent a on
RECURSIVE bestLength64(_, _, _)
bestLength64(lengths, a, best) ==
    IF a > Len(lengths) THEN best
    ELSE bestLength64(lengths, a + 1, IF F64Less(lengths[a], best) THEN lengths[a] ELSE best)

\* agents.reduce((sum, agent) => sum + agent.tourLength, 0), from agent a on
RECURSIVE totalLength64(_, _, _)
totalLength64(lengths, a, sum) ==
    IF a > Len(lengths) THEN sum
    ELSE totalLength64(lengths, a + 1, F64Add(sum, lengths[a]))

\* The graphs and colonies whose result is evaluated: count nodes on a ring
\* whose edges all have the distance numerator / denominator written out in
\* decimal (minDistance = maxDistance, e.g. 0.7 for 7 / 10), and antCount agents
EvaluationInputs ==
    [count : {2, 3}, antCount : {1, 2, 3}, numerator : 1..12, denominator : {3, 7, 10}]

\* _executeIteration, lines 149-152: every agent has closed its tour over the
\* count edges of the ring and gets its tourLength
EvaluateTourLengths ==
    /\ evaluation.tourLengths = <<>>
    /\ evaluation' = [evaluation EXCEPT
                         !.tourLengths = [a \in 1..evaluation.antCount |->
                                             calculateDistance64(evaluation.count,
                                                                 evaluation.distance,
                                                                 <<<<>>, 0>>)]]
    /\ UNCHANGED <<graphParams, nodes, distances, pheromones, params, status, notifications,
                   agents, bestAgent, gens, source, copy, shared, structure, app, runResults>>

\* _executeIteration, lines 153-166: bestLength and averageLength of the result
\* of the first iteration of a run, where the incumbent is the best agent of
\* the iteration
EvaluateResult ==
    /\ evaluation.tourLengths # <<>>
    /\ evaluation.result = None
    /\ evaluation' =
           [evaluation EXCEPT
               !.result =
                   LET lengths == evaluation.tourLengths
                   IN  Some([bestLength |-> bestLength64(lengths, 1, lengths[1]),
                             averageLength |->
                                 F64DivInt(totalLength64(lengths, 1, <<<<>>, 0>>),
                                           Len(lengths))])]
    /\ UNCHANGED <<graphParams, nodes, distances, pheromones, params, status, notifications,
                   agents, bestAgent, gens, source, copy, shared, structure, app, runResults>>

NextEvaluation ==
    \/ EvaluateTourLengths
    \/ EvaluateResult

\* A run on a ring of count nodes in its first iteration, before the tour
\* lengths are computed; evaluation.distance is the binary64 distance of every
\* edge of the ring
InitEvaluation ==
    \E input \in EvaluationInputs :
        /\ InitService(GraphParams(input.count, Some(2), None, None),
                       LineLayout(input.count), <<Zero>>, StructureParams)
        /\ structure = None
        /\ app = None
        /\ runResults = <<>>
        /\ evaluation = [count |-> input.count, antCount |-> input.antCount,
                         distance |-> F64DivInt(<<<<input.numerator>>, 0>>,
                                                input.denominator),
                         tourLengths |-> <<>>, result |-> None]

SpecEvaluation == InitEvaluation /\ [][NextEvaluation]_vars

---------------------------------------------------------------------------
(* Agent: one object driven through its own methods, and a copy of it      *)

\* source = new Agent(startPosition)
AgentNew(startPosition) ==
    /\ source = None
    /\ source' = Some(reset(startPosition))
    /\ UNCHANGED <<copy, shared>>
    /\ UNCHANGED <<graphParams, nodes, distances, pheromones, params, status, notifications,
                   agents, bestAgent, gens, structure, app, runResults, evaluation>>

\* copy = new Agent(source): copy._tour and copy._tabuList are the source's objects
AgentCopy ==
    /\ IsSome(source)
    /\ copy' = Some(copyAgent(Get(source)))
    /\ shared' = {"tour", "tabuList"}
    /\ UNCHANGED source
    /\ UNCHANGED <<graphParams, nodes, distances, pheromones, params, status, notifications,
                   agents, bestAgent, gens, structure, app, runResults, evaluation>>

\* source.moveTo(position): push and add write into the objects the source holds,
\* which the copy sees where it holds the same object
AgentMoveTo(position) ==
    /\ IsSome(source)
    /\ Len(Get(source).tour) < MaxTourLength
    /\ source' = Some(moveTo(Get(source), position))
    /\ copy' = IF IsSome(copy)
               THEN Some([Get(copy) EXCEPT
                            !.tour = IF "tour" \in shared THEN Append(@, position) ELSE @,
                            !.tabuList = IF "tabuList" \in shared
                                         THEN @ \cup {position} ELSE @])
               ELSE copy
    /\ UNCHANGED shared
    /\ UNCHANGED <<graphParams, nodes, distances, pheromones, params, status, notifications,
                   agents, bestAgent, gens, structure, app, runResults, evaluation>>

\* source.closeTour(): a non-empty tour is replaced by a new array
AgentCloseTour ==
    /\ IsSome(source)
    /\ Len(Get(source).tour) < MaxTourLength
    /\ source' = Some(closeTour(Get(source)))
    /\ shared' = IF Len(Get(source).tour) = 0 THEN shared ELSE shared \ {"tour"}
    /\ UNCHANGED copy
    /\ UNCHANGED <<graphParams, nodes, distances, pheromones, params, status, notifications,
                   agents, bestAgent, gens, structure, app, runResults, evaluation>>

\* source.reset(startPosition): a new array and a new set
AgentReset(startPosition) ==
    /\ IsSome(source)
    /\ source' = Some(reset(startPosition))
    /\ shared' = {}
    /\ UNCHANGED copy
    /\ UNCHANGED <<graphParams, nodes, distances, pheromones, params, status, notifications,
                   agents, bestAgent, gens, structure, app, runResults, evaluation>>

\* source.tourLength = graph.calculateDistance(source.tour)
AgentSetTourLength ==
    /\ IsSome(source)
    /\ source' = Some([Get(source) EXCEPT !.tourLength = calculateDistance(Get(source).tour)])
    /\ UNCHANGED <<copy, shared>>
    /\ UNCHANGED <<graphParams, nodes, distances, pheromones, params, status, notifications,
                   agents, bestAgent, gens, structure, app, runResults, evaluation>>

\* One agent's turn in _moveAgents, for the Agent driven directly: it moves to
\* the node _selectNextNode returns when Math.random() returns rnd
AgentSelectNext(rnd) ==
    /\ IsSome(source)
    /\ Get(source).visitedCount # nodeCount
    /\ source' = Some(moveTo(Get(source), selectNextNode(Get(source), rnd)))
    /\ UNCHANGED <<copy, shared>>
    /\ UNCHANGED <<graphParams, nodes, distances, pheromones, params, status, notifications,
                   agents, bestAgent, gens, structure, app, runResults, evaluation>>

\* The pheromone values written directly: 0, +Infinity and NaN
WrittenPheromones == {Zero, Infinity, NaN}

\* The entries of the pheromone field that differ from initialPheromone
WrittenEntries == {e \in (DOMAIN pheromones) \X (DOMAIN pheromones) :
                      pheromones[e[1]][e[2]] # params.initialPheromone}

\* graph.updatePheromone(i, j, value)
GraphUpdatePheromone(i, j, value) ==
    /\ Cardinality(WrittenEntries) < MaxPheromoneWrites
    /\ pheromones' = updatePheromone(pheromones, i, j, value)
    /\ UNCHANGED <<graphParams, nodes, distances, params, status, notifications,
                   agents, bestAgent, gens, source, copy, shared, structure, app, runResults, evaluation>>

NextAgent ==
    \/ \E startPosition \in NodeIds(nodeCount) : AgentNew(startPosition)
    \/ AgentCopy
    \/ \E position \in NodeIds(nodeCount) : AgentMoveTo(position)
    \/ AgentCloseTour
    \/ \E startPosition \in NodeIds(nodeCount) : AgentReset(startPosition)
    \/ AgentSetTourLength

\* The node count of the graph the Agent moves on
AgentCounts == {2}

\* an idle service, a complete graph, and no Agent yet
InitAgent ==
    \E count \in AgentCounts :
        \E ap \in AlgorithmParamsSet(count, {Norm(1, 2)}, {Some(1)}) :
            /\ ap.antCount = 1 /\ ap.maxIterations = 1 /\ ap.improvementThreshold = 1
            /\ InitWith(GraphParams(count, None, None, None), RectLayout(count), <<Zero>>, ap)

SpecAgent == InitAgent /\ [][NextAgent]_vars

\* The graphs of the node selection runs: the complete graph of three nodes and
\* the ring of four, as <<count, edgesPerNode>>
SelectGraphs == {<<3, None>>, <<4, Some(2)>>}

\* a graph whose pheromone field is uniformly 0, 1, +Infinity or NaN, alpha 0 or
\* 1, and no Agent yet
InitSelect ==
    \E g \in SelectGraphs :
        \E ap \in [antCount : {1},
                   maxIterations : {1},
                   alpha : {0, 1},
                   beta : {1},
                   evaporationRate : {Norm(1, 2)},
                   Q : {One},
                   elitistCount : {Some(1)},
                   improvementThreshold : {1},
                   initialPheromone : {Zero, One, Infinity, NaN}] :
            InitWith(GraphParams(g[1], g[2], None, None), RectLayout(g[1]), <<Zero>>, ap)

\* an Agent that moves by node selection, between direct pheromone writes
NextSelect ==
    \/ \E startPosition \in NodeIds(nodeCount) : AgentNew(startPosition)
    \/ \E rnd \in RandSet : AgentSelectNext(rnd)
    \/ \E startPosition \in NodeIds(nodeCount) : AgentReset(startPosition)
    \/ \E i, j \in NodeIds(nodeCount) : \E value \in WrittenPheromones :
           GraphUpdatePheromone(i, j, value)

SpecSelect == InitSelect /\ [][NextSelect]_vars

---------------------------------------------------------------------------
(* Claims                                                                  *)

\* The results the callers hold: the value the last next() of a generator returned
HasValue(g) == IsSome(gens[g].value)
Value(g) == Get(gens[g].value)

\* A tour of n + 1 entries that lists every node once and returns to its start
ValidTour(tour, n) ==
    /\ Len(tour) = n + 1
    /\ tour[n + 1] = tour[1]
    /\ {tour[p] : p \in 1..n} = NodeIds(n)

Pulled(g) == g \in DOMAIN gens /\ gens'[g].pulls = gens[g].pulls + 1

\* The step is a call of next() on generator g that emits a result
Emitted(g) == Pulled(g) /\ gens'[g].emitted = gens[g].emitted + 1

\* The step is a call of next() on generator g that reports the sequence finished
ReportedDone(g) == Pulled(g) /\ gens'[g].returned = "done"

\* The best-ever length known before the step (Infinity when there is no incumbent)
BestEverLength == IF IsSome(bestAgent) THEN Get(bestAgent).tourLength ELSE Infinity

\* The iteration the step executes has a best tour strictly shorter than the
\* best-ever length known before it.  The incumbent is replaced exactly when
\* there was none or the iteration's best is strictly shorter, so the new
\* incumbent's length tells.
StrictlyImproved == Lt(Get(bestAgent').tourLength, BestEverLength)

\* C2: the no-improvement count is reset to 0 by every iteration that strictly
\* improves the best-ever length and is incremented otherwise, and the result is
\* converged exactly when the count has reached improvementThreshold.
C2_ConvergenceCount ==
    [][\A g \in DOMAIN gens : Emitted(g) =>
          /\ gens'[g].noImprovementCount =
                 IF StrictlyImproved THEN 0 ELSE gens[g].noImprovementCount + 1
          /\ Get(gens'[g].value).converged =
                 (gens'[g].noImprovementCount >= params.improvementThreshold)]_vars

\* C3: once a result with converged = true has been emitted, every later pull of
\* that sequence reports it finished and no further result is emitted.
C3_NoResultAfterConverged ==
    [][\A g \in DOMAIN gens : gens[g].converged =>
          /\ gens'[g].emitted = gens[g].emitted
          /\ (Pulled(g) => gens'[g].returned = "done")]_vars

\* C3 witness: a sequence that emitted a converged result while the iteration
\* limit was not reached has been pulled again and reported finished.
C3_Witness ==
    \E g \in DOMAIN gens :
        /\ gens[g].converged
        /\ gens[g].currentIteration < params.maxIterations
        /\ gens[g].returned = "done"

\* C4: a pull made while the status is Stopped (stop() was called and start() was
\* not called since) emits no result, reports the sequence finished, and leaves
\* the agents, the incumbent and the pheromone as they were.
C4_CooperativeCancellation ==
    [][\A g \in DOMAIN gens : (stopped /\ Pulled(g)) =>
          /\ gens'[g].returned = "done"
          /\ gens'[g].emitted = gens[g].emitted
          /\ gens'[g].currentIteration = gens[g].currentIteration
          /\ UNCHANGED <<agents, bestAgent, pheromones>>]_vars

\* C4 witness: the only sequence was stopped after its first result, before its
\* iteration limit and unconverged, and its next pull reported it finished.
C4_Witness ==
    /\ Len(gens) = 1
    /\ gens[1].emitted = 1
    /\ gens[1].currentIteration < params.maxIterations
    /\ ~gens[1].converged
    /\ gens[1].returned = "done"
    /\ agents # initialize(params.antCount)

\* The step is a call of start()
Started == Len(gens') = Len(gens) + 1

\* The step is the call of next() on which generator g returns (it reports
\* finished for the first time)
Finished(g) == Pulled(g) /\ gens[g].pc # "done" /\ gens'[g].pc = "done"

\* C5 as stated: the status is Stopped before any start(), Running right after
\* start() returns, and Stopped whenever a pull reports the sequence finished.
C5_StatusAtEveryDone ==
    /\ [](gens = <<>> => stopped)
    /\ [][Started => status' = "Running"]_vars
    /\ [][\A g \in DOMAIN gens : ReportedDone(g) => status' = "Stopped"]_vars

\* C5 amended: the status is Stopped before any start(), Running right after
\* start() returns, and Stopped right after the pull on which a sequence
\* finishes; a later pull of a finished sequence leaves the status alone.
C5_StatusStateMachine ==
    /\ [](gens = <<>> => stopped)
    /\ [][Started => status' = "Running"]_vars
    /\ [][\A g \in DOMAIN gens : Finished(g) => status' = "Stopped"]_vars
    /\ [][\A g \in DOMAIN gens :
            (ReportedDone(g) /\ ~Finished(g)) => status' = status]_vars

\* C5 witness: a sequence that ran to its iteration limit unconverged has
\* finished while another start() had been made, and the status is Stopped.
C5_Witness ==
    \E g \in DOMAIN gens :
        /\ gens[g].pc = "done"
        /\ gens[g].emitted = params.maxIterations
        /\ ~gens[g].converged
        /\ Len(gens) = 2
        /\ stopped

\* The result generator g holds is the final one of its run: the converged one
\* or the maxIterations-th
HoldsFinalResult(gs, g) ==
    /\ gs[g].returned = "value"
    /\ (gs[g].converged \/ gs[g].currentIteration >= params.maxIterations)

\* C6 as stated: as soon as the final result of a run has been emitted, the
\* status is Stopped.
C6_StoppedAtFinalResult ==
    [][\A g \in DOMAIN gens :
          (Emitted(g) /\ HoldsFinalResult(gens', g)) => status' = "Stopped"]_vars

\* C6 amended: a pull that emits a result, the final result of the run included,
\* finds the status Running and leaves it Running; the status becomes Stopped
\* only by stop() or by the pull on which a sequence finishes.
C6_RunningUntilDonePull ==
    /\ [][\A g \in DOMAIN gens : Emitted(g) => (~stopped /\ status' = "Running")]_vars
    /\ [][(~stopped /\ status' = "Stopped") =>
             (UNCHANGED gens \/ \E g \in DOMAIN gens : Finished(g))]_vars

\* C6 witness: the only sequence holds its final result, unconverged, and the
\* status is still Running.
C6_Witness ==
    /\ Len(gens) = 1
    /\ HoldsFinalResult(gens, 1)
    /\ ~gens[1].converged
    /\ status = "Running"

C10_PheromoneFinite ==
    \A i \in DOMAIN pheromones : \A j \in DOMAIN pheromones : IsFinite(pheromones[i][j])

\* The parameter ranges the pheromone claims assume
ValidPheromoneParams ==
    /\ Lt(Zero, params.initialPheromone)
    /\ Le(Zero, params.evaporationRate) /\ Le(params.evaporationRate, One)
    /\ Lt(Zero, params.Q)
    /\ (IsSome(params.elitistCount) => Get(params.elitistCount) >= 0)

\* C11: given initialPheromone > 0, 0 <= evaporationRate <= 1, Q > 0 and
\* elitistCount >= 0, every pheromone entry is >= 0 after any number of
\* evaporate/deposit cycles.
C11_PheromoneNonNegative ==
    ValidPheromoneParams =>
        \A i \in DOMAIN pheromones : \A j \in DOMAIN pheromones :
            Le(Zero, pheromones[i][j])

\* What generator.next() on generator g can return in the current state: the
\* results over the values Math.random() can take, or None when it reports done
PullOutcomes(g) ==
    LET gen == gens[g]
        resumed == gen.pc = "yielded"
        continues == gen.pc = "created" \/ (resumed /\ ~breaksAfterYield(gen))
        ags == IF resumed /\ continues THEN resetAgents(agents) ELSE agents
    IN  IF continues /\ whileCondition(gen)
        THEN {loopBody(gen, moved).gen.value : moved \in construction(ags, nodeCount - 1)}
        ELSE {None}

\* C12: with the seed, the GraphParams and the AlgorithmParams fixed, the result
\* sequence is fixed: two runs that have emitted the same results so far are in
\* the same state, so they emit identical sequences exactly when, in every
\* state, a pull has one possible outcome.
C12_Determinism ==
    \A g \in DOMAIN gens : Cardinality(PullOutcomes(g)) = 1

\* C13: start() with malformed parameters (antCount = 0, Q <= 0, evaporationRate
\* outside [0, 1]) raises a configuration error: no sequence is returned, the
\* status does not become Running and no result is ever produced.
C13_StartRejectsMalformed ==
    Malformed(params) =>
        /\ gens = <<>>
        /\ status # "Running"

\* C14: graph construction fails with a configuration error when count < 1 or
\* when edgesPerNode is present but < 2: no graph (the nodes, distances and
\* pheromones of every state are those of a constructed Graph) is ever built
\* from such parameters.
C14_GraphFailsFast == ~InvalidGraphParams(graphParams)

\* The graph was built in k-regular mode
KRegularMode == IsSome(graphParams.edgesPerNode) /\ Get(graphParams.edgesPerNode) >= 2

\* C15: in k-regular mode with k >= 2 and count >= 3, distance[i][(i+1) mod count]
\* is finite for every node i.
C15_RingConnectivity ==
    (KRegularMode /\ graphParams.count >= 3) =>
        \A i \in DOMAIN distances : IsFinite(distances[i][(i + 1) % graphParams.count])

\* C15 witness: a 3-regular graph of MaxRingCount nodes with random weights in
\* which some pair of nodes has no edge.
C15_Witness ==
    /\ graphParams.count = MaxRingCount
    /\ graphParams.edgesPerNode = Some(3)
    /\ IsSome(graphParams.minDistance)
    /\ \E i, j \in DOMAIN distances : distances[i][j] = Infinity

\* The distance matrix is symmetric / has no negative entry
DistancesSymmetric ==
    \A i \in DOMAIN distances : \A j \in DOMAIN distances :
        distances[i][j] = distances[j][i]

DistancesNonNegative ==
    \A i \in DOMAIN distances : \A j \in DOMAIN distances : Le(Zero, distances[i][j])

\* C16 as stated: for every graph the builder returns, distance[i][j] =
\* distance[j][i] for all i, j, no entry is negative, and no step of a run
\* changes the matrix.
C16_DistanceSymmetry ==
    /\ [](DistancesSymmetric /\ DistancesNonNegative)
    /\ [][distances' = distances]_vars

\* minDistance and maxDistance, where given, are >= 0
NonNegativeRange ==
    /\ (IsSome(graphParams.minDistance) => Get(graphParams.minDistance) >= 0)
    /\ (IsSome(graphParams.maxDistance) => Get(graphParams.maxDistance) >= 0)

\* C16 amended: for every graph the builder returns, distance[i][j] =
\* distance[j][i] for all i, j and no step of a run changes the matrix; no
\* entry is negative when minDistance and maxDistance, where given, are >= 0.
C16_DistanceSymmetryInRange ==
    /\ [](DistancesSymmetric /\ (NonNegativeRange => DistancesNonNegative))
    /\ [][distances' = distances]_vars

\* C16 witness: a run has emitted a result on a k-regular graph with random
\* weights in which two edges have different weights.
C16_Witness ==
    /\ KRegularMode
    /\ NonNegativeRange
    /\ IsSome(graphParams.minDistance)
    /\ \E g \in DOMAIN gens : gens[g].emitted > 0
    /\ \E i, j, k \in DOMAIN distances :
          /\ IsFinite(distances[i][j]) /\ IsFinite(distances[i][k])
          /\ Lt(Zero, distances[i][j]) /\ Lt(distances[i][j], distances[i][k])

\* C17: distance[i][i] = 0 for every node i of every graph the builder returns.
C17_ZeroDiagonal ==
    \A i \in DOMAIN distances : distances[i][i] = Zero

\* A distance within the closed interval [minDistance, maxDistance]; an absent
\* end does not restrict
WithinRange(d) ==
    /\ (IsSome(graphParams.minDistance) => Le(Int2Num(Get(graphParams.minDistance)), d))
    /\ (IsSome(graphParams.maxDistance) => Le(d, Int2Num(Get(graphParams.maxDistance))))

\* C18: in complete-graph mode with minDistance and/or maxDistance given, every
\* pair i # j whose euclidean distance lies outside [minDistance, maxDistance]
\* has distance +Infinity and every pair inside it keeps its distance.
C18_CompleteGraphPruning ==
    (~IsSome(graphParams.edgesPerNode)
        /\ (IsSome(graphParams.minDistance) \/ IsSome(graphParams.maxDistance))) =>
        \A i \in DOMAIN distances : \A j \in DOMAIN distances :
            i # j => distances[i][j] =
                        IF WithinRange(euclideanDistance(nodes[i], nodes[j]))
                        THEN euclideanDistance(nodes[i], nodes[j])
                        ELSE Infinity

\* The sum of distances[tour[p]][tour[p + 1]] over the positions p.. of a tour
RECURSIVE TourSum(_, _)
TourSum(tour, p) ==
    IF p >= Len(tour) THEN Zero
    ELSE Add(distances[tour[p]][tour[p + 1]], TourSum(tour, p + 1))

\* C19: in every emitted result, bestLength equals the sum of the distances
\* between consecutive nodes of that result's bestTour.
C19_BestLengthConsistency ==
    \A g \in DOMAIN gens :
        HasValue(g) => Value(g).bestLength = TourSum(Value(g).bestTour, 1)

\* C19 witness: the second result of a run of two agents on a k-regular graph
\* with random weights has a finite positive bestLength.
C19_Witness ==
    \E g \in DOMAIN gens :
        /\ HasValue(g)
        /\ gens[g].emitted = 2
        /\ Len(agents) = 2
        /\ KRegularMode /\ IsSome(graphParams.minDistance)
        /\ IsFinite(Value(g).bestLength) /\ Lt(Zero, Value(g).bestLength)

\* An agent that has not moved yet, or whose closed tour lists every node once:
\* an agent that was stuck has its start node inside its tour instead
NeverStuck(agent) ==
    Len(agent.tour) = 1 \/ ValidTour(agent.tour, nodeCount)

\* C20: on a complete graph with count >= 2 a run emits at least one result (the
\* first pull of a sequence, made while the status is Running, emits one) and at
\* most maxIterations results, no agent is ever stuck, and every emitted
\* bestLength is finite and > 0.
C20_CompleteGraphRun ==
    /\ [](nodeCount >= 2 =>
            /\ \A a \in DOMAIN agents : NeverStuck(agents[a])
            /\ \A g \in DOMAIN gens :
                  /\ gens[g].emitted <= params.maxIterations
                  /\ (HasValue(g) => /\ IsFinite(Value(g).bestLength)
                                      /\ Lt(Zero, Value(g).bestLength)))
    /\ [][\A g \in DOMAIN gens :
            (nodeCount >= 2 /\ Pulled(g) /\ gens[g].pc = "created" /\ ~stopped)
                => Emitted(g)]_vars

\* C20 witness: a run of two agents on the complete graph of three nodes has
\* emitted MaxIterations results and finished.
C20_Witness ==
    \E g \in DOMAIN gens :
        /\ nodeCount = 3
        /\ Len(agents) = 2
        /\ gens[g].emitted = MaxIterations
        /\ gens[g].returned = "done"

\* C21: in k-regular mode with edgesPerNode = 4 every emitted result has a finite
\* averageLength: in no iteration does an agent end with tourLength = +Infinity.
C21_SparseFiniteAverage ==
    (KRegularMode /\ graphParams.edgesPerNode = Some(4)) =>
        /\ \A g \in DOMAIN gens : HasValue(g) => IsFinite(Value(g).averageLength)
        /\ \A a \in DOMAIN agents : agents[a].tourLength # Infinity

\* C22 as stated: with antCount = 1, every emitted result of a run, not only the
\* first, has averageLength = bestLength.
C22_SingleAgentAverage ==
    params.antCount = 1 =>
        \A g \in DOMAIN gens : HasValue(g) => Value(g).averageLength = Value(g).bestLength

\* C22 amended: with antCount = 1, every emitted result has averageLength equal
\* to the length of the tour the agent made in that iteration, bestLength is
\* never greater than it, and in the first result the two are equal.
C22_SingleAgentAverageOfIteration ==
    params.antCount = 1 =>
        \A g \in DOMAIN gens : HasValue(g) =>
            /\ Value(g).averageLength = agents[1].tourLength
            /\ Le(Value(g).bestLength, Value(g).averageLength)
            /\ (gens[g].emitted = 1 => Value(g).averageLength = Value(g).bestLength)

\* C22 witness: the second result of a run of one agent has a finite
\* averageLength greater than its bestLength.
C22_Witness ==
    /\ params.antCount = 1
    /\ \E g \in DOMAIN gens :
          /\ HasValue(g)
          /\ gens[g].emitted = 2
          /\ IsFinite(Value(g).averageLength)
          /\ Lt(Value(g).bestLength, Value(g).averageLength)

\* The run of generator g is to go on: it has not finished, the status is not
\* Stopped, its last result was not converged and it is below maxIterations
GoesOn(g) ==
    /\ gens[g].pc # "done"
    /\ ~stopped
    /\ ~gens[g].converged
    /\ gens[g].currentIteration < params.maxIterations

\* Some agent ended the iteration stuck or with tourLength = +Infinity
Anomalous(ags) ==
    \E a \in DOMAIN ags : ~NeverStuck(ags[a]) \/ ags[a].tourLength = Infinity

\* C23: runtime anomalies do not end the run: no pull raises an error, and every
\* pull of a run that is not stopped, converged or at maxIterations emits a
\* result, whether or not agents were stuck or ended with tourLength = +Infinity
\* in the iteration before it or in the iteration it executes.
C23_AnomaliesAbsorbed ==
    /\ [](\A g \in DOMAIN gens : gens[g].returned # "threw")
    /\ [][\A g \in DOMAIN gens : (Pulled(g) /\ GoesOn(g)) =>
            /\ Emitted(g)
            /\ gens'[g].returned = "value"
            /\ Get(gens'[g].value).iteration = gens[g].currentIteration + 1]_vars

\* C23 witness: a run has emitted two results, each from an iteration in which
\* every agent ended with tourLength = +Infinity.
C23_Witness ==
    \E g \in DOMAIN gens :
        /\ HasValue(g)
        /\ gens[g].emitted = 2
        /\ Value(g).bestLength = Infinity
        /\ Anomalous(agents)

\* C24: stop() is idempotent and safe when already stopped: a call made while
\* the status is Stopped changes nothing and emits no status notification, and
\* every call leaves the status Stopped, so a second call in a row is such a
\* call and leaves the state the first call left.
C24_StopIdempotent ==
    /\ [][(Stop /\ stopped) => UNCHANGED vars]_vars
    /\ [][Stop => status' = "Stopped"]_vars

\* C24 witness: stop() has been called during a run: the status is Stopped, the
\* sequence has not finished, and _status$ has emitted Running and Stopped, once
\* each.
C24_Witness ==
    /\ Len(gens) = 1
    /\ gens[1].pc = "yielded"
    /\ stopped
    /\ notifications = 2

\* C25: Agent.closeTour() is idempotent: on an empty tour and on an already
\* closed tour it is a no-op, so calling it twice leaves the same tour as calling
\* it once, with the start node appended exactly once.
C25_CloseTourIdempotent ==
    IsSome(source) =>
        closeTour(closeTour(Get(source))).tour = closeTour(Get(source)).tour

\* C26: the copy made by new Agent(agent) is a defensive copy, not an alias:
\* after it is taken, a moveTo, closeTour or reset on the source (or an
\* assignment of its tourLength) leaves the copy's tour, visited set, visited
\* count and tourLength unchanged.
C26_DefensiveCopy ==
    [][(IsSome(copy) /\ source' # source) => copy' = copy]_vars

\* C27: an agent without a reachable unvisited node falls back to its start
\* node and is idle for the rest of the iteration.  A move of an agent that is
\* not stuck goes to an unvisited node, so the start node inside a tour marks
\* the fallback: no entry after it is a node other than the start node.
C27_StuckAgentIdle ==
    \A a \in DOMAIN agents :
        LET tour == agents[a].tour
        IN  \A p \in 2..Len(tour) : \A q \in (p + 1)..Len(tour) :
                tour[p] = tour[1] => tour[q] = tour[1]

\* The unvisited nodes at finite, positive distance from the agent's position
Candidates(agent) ==
    {j \in NodeIds(nodeCount) :
        /\ j \notin agent.tabuList
        /\ IsFinite(distances[agent.position][j])
        /\ Lt(Zero, distances[agent.position][j])}

\* C28: whenever the agent that is to move has at least one unvisited node at
\* finite, positive distance from its position, the node selected is one of
\* those candidates for every value of the random draw and every pheromone
\* state; with exactly one candidate it is that candidate whatever the draw.
C28_NodeSelection ==
    (IsSome(source) /\ Get(source).visitedCount # nodeCount
                    /\ Candidates(Get(source)) # {}) =>
        \A rnd \in RandSet : selectNextNode(Get(source), rnd) \in Candidates(Get(source))

\* C28 witness: on the ring of four nodes, with pheromone +Infinity everywhere
\* but NaN on one edge, an agent has selected its way to the last node.
C28_Witness ==
    /\ IsSome(source)
    /\ nodeCount = 4
    /\ Get(source).visitedCount = nodeCount
    /\ Get(source).tabuList = NodeIds(nodeCount)
    /\ params.initialPheromone = Infinity
    /\ \E e \in WrittenEntries : pheromones[e[1]][e[2]] = NaN

\* The agents with a tourLength other than +Infinity
FiniteAgents(ags) == {a \in DOMAIN ags : ags[a].tourLength # Infinity}

\* The earliest agent of minimum finite tourLength; agent 1 when every agent is
\* infinite
EarliestShortest(ags) ==
    IF FiniteAgents(ags) = {} THEN 1
    ELSE CHOOSE a \in FiniteAgents(ags) : \A b \in FiniteAgents(ags) :
             \/ Lt(ags[a].tourLength, ags[b].tourLength)
             \/ (ags[a].tourLength = ags[b].tourLength /\ a <= b)

\* C29: the agent _findBestAgent selects is the one with the minimum finite
\* tourLength, the earliest in insertion order among equals; an agent with
\* tourLength = +Infinity is selected only when every agent is infinite, and
\* then it is the first agent.  The incumbent of the first iteration is the
\* agent selected.
C29_BestOfIteration ==
    agents # <<>> =>
        /\ findBestAgent(agents) = agents[EarliestShortest(agents)]
        /\ (\A g \in DOMAIN gens : gens[g].emitted = 1) =>
               bestAgent = Some(agents[EarliestShortest(agents)])

\* C29 witness: the iteration ended with the second agent strictly shorter than
\* the first, and the second agent is the incumbent.
C29_Witness ==
    /\ Len(agents) = 2
    /\ gens # <<>> /\ gens[1].emitted = 1
    /\ Lt(agents[2].tourLength, agents[1].tourLength)
    /\ IsFinite(agents[1].tourLength)
    /\ bestAgent = Some(agents[2])

\* C30: across the results of one run (the results emitted between one start()
\* and the next) bestLength never increases, and bestTour differs from that of
\* the result before it only when bestLength strictly decreased; start()
\* discards the incumbent, and nothing else than start() and an emitted result
\* changes it.  Every result reports the incumbent, so the result before is the
\* incumbent before the step.
C30_IncumbentMonotonicity ==
    /\ [][\A g \in DOMAIN gens : Emitted(g) =>
            LET result == Get(gens'[g].value)
            IN  /\ result.bestTour = Get(bestAgent').tour
                /\ result.bestLength = Get(bestAgent').tourLength
                /\ IsSome(bestAgent) =>
                      /\ Le(result.bestLength, Get(bestAgent).tourLength)
                      /\ (result.bestTour # Get(bestAgent).tour =>
                             Lt(result.bestLength, Get(bestAgent).tourLength))]_vars
    /\ [][Started => bestAgent' = None]_vars
    /\ [][bestAgent' # bestAgent => (Started \/ \E g \in DOMAIN gens : Emitted(g))]_vars

\* C30 witness: the second iteration of the second run made a tour as long as
\* the incumbent's but different from it, and the result still reports the
\* incumbent's tour.
C30_Witness ==
    /\ Len(gens) = 2
    /\ gens[1].emitted >= 1
    /\ gens[2].emitted = 2 /\ HasValue(2)
    /\ agents[1].tourLength = Value(2).bestLength
    /\ agents[1].tour # Value(2).bestTour
    /\ Value(2).bestTour = Get(bestAgent).tour

\* The number of times the tour goes from i to j or from j to i, from position p on
RECURSIVE Traversals(_, _, _, _)
Traversals(tour, i, j, p) ==
    IF p >= Len(tour) THEN 0
    ELSE (IF {tour[p], tour[p + 1]} = {i, j} THEN 1 ELSE 0) + Traversals(tour, i, j, p + 1)

\* value plus amount, times times
RECURSIVE AddTimes(_, _, _)
AddTimes(value, amount, times) ==
    IF times = 0 THEN value ELSE AddTimes(Add(value, amount), amount, times - 1)

\* value plus Q / tourLength for every traversal of the edge by agents a..
RECURSIVE WithDeposits(_, _, _, _, _)
WithDeposits(value, ags, a, i, j) ==
    IF a > Len(ags) THEN value
    ELSE WithDeposits(AddTimes(value, Div(params.Q, ags[a].tourLength),
                               Traversals(ags[a].tour, i, j, 1)),
                      ags, a + 1, i, j)

\* The entry [i][j] after the update of an iteration that found the field
\* before, closed the agents ags and left the incumbent best
UpdatedEntry(before, ags, best, i, j) ==
    LET evaporated == Mul(before[i][j], OneMinus(params.evaporationRate))
        deposited == WithDeposits(evaporated, ags, 1, i, j)
    IN  IF IsSome(params.elitistCount) /\ Get(params.elitistCount) > 0
        THEN AddTimes(deposited,
                      Div(Mul(params.Q, Int2Num(Get(params.elitistCount))), best.tourLength),
                      Traversals(best.tour, i, j, 1))
        ELSE deposited

\* C31: after the update of an iteration each pheromone entry equals
\* (1 - evaporationRate) times its value before the update, plus Q / tourLength
\* once for every traversal of that edge in either direction by an agent's
\* closed tour, plus Q * elitistCount / incumbent.tourLength per traversal by
\* the incumbent's tour when elitistCount > 0.
C31_PheromoneUpdate ==
    [][\A g \in DOMAIN gens : Emitted(g) =>
          \A i \in DOMAIN pheromones : \A j \in DOMAIN pheromones :
              pheromones'[i][j] =
                  UpdatedEntry(pheromones, agents', Get(bestAgent'), i, j)]_vars

\* C31 witness: after the second update of a run of two agents with
\* evaporationRate 1/2 and elitistCount 2, an edge both agents and the
\* incumbent went over carries more than two evaporations leave of the initial
\* pheromone.
C31_Witness ==
    /\ Len(agents) = 2
    /\ params.evaporationRate = Norm(1, 2)
    /\ params.elitistCount = Some(2)
    /\ \E g \in DOMAIN gens : gens[g].emitted = 2
    /\ \E i, j \in DOMAIN pheromones :
          /\ i # j
          /\ Traversals(agents[1].tour, i, j, 1) > 0
          /\ Traversals(agents[2].tour, i, j, 1) > 0
          /\ Traversals(Get(bestAgent).tour, i, j, 1) > 0
          /\ IsFinite(pheromones[i][j])
          /\ Lt(Mul(Mul(params.initialPheromone, OneMinus(params.evaporationRate)),
                    OneMinus(params.evaporationRate)),
                pheromones[i][j])

\* Agent i (counted from 0) is on node i mod nodeCount with nothing but that
\* node in its tour and its visited set, and a tourLength of 0
AtStartPositions(ags) ==
    \A a \in DOMAIN ags :
        /\ ags[a].position = (a - 1) % nodeCount
        /\ ags[a].tour = <<(a - 1) % nodeCount>>
        /\ ags[a].tabuList = {(a - 1) % nodeCount}
        /\ ags[a].tourLength = Zero

\* The agents the iteration of the step begins with: those _resetAgents leaves
\* when the generator is resumed behind its yield, those the service holds
\* when the generator is pulled for the first time
AgentsAtIterationStart(g) ==
    IF gens[g].pc = "yielded" THEN resetAgents(agents) ELSE agents

\* C32: at the beginning of every iteration agent i is at node i mod nodeCount
\* with tour [i mod nodeCount], visited set {i mod nodeCount} and tourLength 0;
\* the agents are not reset after the final iteration of a sequence.
C32_StartPositions ==
    [][\A g \in DOMAIN gens :
          /\ Emitted(g) => AtStartPositions(AgentsAtIterationStart(g))
          /\ Finished(g) => agents' = agents]_vars

\* The number of ends the first e edges of the list have at node i
RECURSIVE EndsAt(_, _, _)
EndsAt(edges, e, i) ==
    IF e = 0 THEN 0
    ELSE (IF edges[e][1] = i THEN 1 ELSE 0) + (IF edges[e][2] = i THEN 1 ELSE 0)
         + EndsAt(edges, e - 1, i)

\* The call has returned
StructureDone == structure # None /\ structure.step = "done"

OpenPairs ==
    {p \in NodeIds(StructureN) \X NodeIds(StructureN) :
        /\ p[1] # p[2]
        /\ ~edgeExists(structure.edges, p[1], p[2])
        /\ structure.degree[p[1]] < StructureK
        /\ structure.degree[p[2]] < StructureK}

\* C34: when _generateKRegularStructure returns for count >= 3, no two
\* different nodes that are not adjacent both have a degree below k.
C34_FillingExhausted ==
    (StructureDone /\ KRegularMode /\ StructureN >= 3) => OpenPairs = {}

\* C34 witness: the call has returned after a filling loop that found open
\* pairs and added edges, and a node is still below k.
C34_Witness ==
    /\ StructureDone
    /\ StructureN >= 3
    /\ \E e \in DOMAIN structure.edges :
          /\ e > StructureN
          /\ structure.edges[e][2] < structure.edges[e][1]
    /\ \E i \in NodeIds(StructureN) : structure.degree[i] < StructureK

\* C35: in every iteration each agent makes exactly nodeCount - 1 moves, stuck
\* or not, and after closure its tour has exactly nodeCount + 1 entries, the
\* first equal to the last.
C35_MovesPerIteration ==
    [][\A g \in DOMAIN gens : Emitted(g) =>
          \A a \in DOMAIN agents' :
              LET before == AgentsAtIterationStart(g)[a].tour
                  after == agents'[a].tour
              IN  /\ Len(after) - 1 - Len(before) = nodeCount - 1
                  /\ Len(after) = nodeCount + 1
                  /\ after[1] = after[Len(after)]]_vars

\* Generator g was returned by a start() that is not the latest one
Superseded(g) == g \in DOMAIN gens /\ g < Len(gens)

\* C36: after a later start() on the same engine, pulling the sequence an
\* earlier start() returned emits no further result and changes neither the
\* status nor the agents, the incumbent or the pheromone of the newer run.
C36_RunIsolation ==
    [][\A g \in DOMAIN gens : (Superseded(g) /\ Pulled(g)) =>
          /\ ~Emitted(g)
          /\ UNCHANGED <<status, agents, bestAgent, pheromones>>]_vars

\* C37: start() leaves the pheromone field of the graph as it is: it creates
\* the agents anew and clears the incumbent, so a second run on the same Graph
\* begins from the pheromone the previous run left.
C37_StartKeepsPheromone ==
    [][Started =>
          /\ pheromones' = pheromones
          /\ Len(agents') = params.antCount
          /\ AtStartPositions(agents')
          /\ bestAgent' = None]_vars

\* C37 witness: a second start() has just returned on a graph whose pheromone
\* the first run changed.
C37_Witness ==
    /\ Len(gens) = 2
    /\ gens[1].emitted >= 1
    /\ gens[2].pulls = 0
    /\ bestAgent = None
    /\ AtStartPositions(agents)
    /\ pheromones # createMatrix(nodeCount, params.initialPheromone)

\* The history of the driver is the first entries of the results the current
\* run has emitted, in their order
HistoryIsPrefix ==
    /\ Len(app.iterations) <= Len(runResults)
    /\ \A i \in DOMAIN app.iterations :
          /\ app.iterations[i] = runResults[i]
          /\ app.iterations[i].iteration = i

\* The step adds an entry to the history of the driver
Appended == Len(app'.iterations) > Len(app.iterations)

C38_BestNotAboveAverage ==
    /\ \A g \in DOMAIN gens :
          HasValue(g) => Le(Value(g).bestLength, Value(g).averageLength)
    /\ (evaluation # None /\ evaluation.result # None) =>
          ~F64Less(Get(evaluation.result).averageLength, Get(evaluation.result).bestLength)

=============================================================================
